---- MODULE Spec2Model ----
(***************************************************************************)
(* Publishing pipeline of x2a-convertor: the controller synchronisation    *)
(* (sync_to_aap and its caller publish_aap) and the project assembler      *)
(* (publish_project over the primitives of src/publishers/tools.py).       *)
(***************************************************************************)
EXTENDS Integers, Sequences, FiniteSets, TLC

VARIABLES
    env,         \* ambient configuration read by the call in progress
    sargs,       \* arguments of the sync_to_aap call in progress
    spc,         \* position inside sync_to_aap
    entered,     \* whether the call's arguments bound to sync_to_aap's parameters
    caller,      \* who started the call: "direct", "publish_aap", "constructor"
    calls,       \* controller operations invoked by the call so far, in order
    locals,      \* sync_to_aap's local variables
    sres,        \* how sync_to_aap (or a constructor) ended
    pres,        \* how publish_aap ended
    controller,  \* remote projects held by the automation controller
    projDir,     \* the project directory this behaviour looks at
    sources,     \* the migrated role directories, by role name (read-only input)
    fs,          \* the project directory: path -> what is on disk there
    ncalls,      \* publish_project calls so far; the clock of modification times
    last,        \* the last publish_project call: arguments, steps, how it ended
    published,   \* role directories and playbooks produced by successful calls so far
    tool,        \* the last call of a function of tools.py made on its own
    graph_node,  \* PublishAgent: the node of the workflow to run next
    publish_state, \* PublishAgent: the PublishState passed from node to node
    invoked,     \* PublishAgent: the tools invoked so far, in order
    copiers,     \* concurrent copy_role_directory calls: position and outcome of each
    shared_dest, \* the role destination the concurrent calls share
    ended,       \* the concurrent calls that have ended, in that order
    overlap      \* whether two of the concurrent calls were ever under way together

svars == <<env, sargs, spc, entered, caller, calls, locals, sres, pres, controller>>

pvars == <<projDir, sources, fs, ncalls, last, published>>

tvars == <<tool>>

avars == <<graph_node, publish_state, invoked>>

cvars == <<copiers, shared_dest, ended, overlap>>

vars == <<svars, pvars, tvars, avars, cvars>>

----------------------------------------------------------------------------
(* Python values *)

\* Optional[int]: None is the empty tuple, a value n is <<n>>.
None == <<>>

Some(x) == <<x>>

\* JSON values found under a key of a controller response.
JInt(n) == <<"int", n>>

JNull == <<"null">>

JStr(s) == <<"str", s>>

NoExc == [type |-> "", msg |-> ""]

Exc(t, m) == [type |-> t, msg |-> m]

\* int(x) of Python on a JSON value: a number converts, null is a TypeError,
\* non-numeric text is a ValueError.
PyInt(x) ==
    CASE x[1] = "int" -> [ok |-> TRUE, val |-> x[2], exc |-> NoExc]
      [] x[1] = "null" ->
            [ok |-> FALSE, val |-> 0,
             exc |-> Exc("TypeError", "int() argument must be a string or a number, not 'NoneType'")]
      [] OTHER ->
            [ok |-> FALSE, val |-> 0,
             exc |-> Exc("ValueError", "invalid literal for int() with base 10")]

----------------------------------------------------------------------------
(* AAPSyncResult *)

AAPSyncResult ==
    [enabled |-> FALSE, project_name |-> "", project_id |-> None,
     project_update_id |-> None, project_update_status |-> "", error |-> ""]

disabled == [AAPSyncResult EXCEPT !.enabled = FALSE]

\* Variant: the error result is not marked enabled.
from_error_NotEnabled(error) == [AAPSyncResult EXCEPT !.error = error]

from_error(error) == [AAPSyncResult EXCEPT !.enabled = TRUE, !.error = error]

\* First line of report_summary: which outcome the result is presented as.
report_summary(r) ==
    IF ~r.enabled THEN "Disabled"
    ELSE IF r.error # "" THEN "FAILED"
    ELSE "SUCCESS"

----------------------------------------------------------------------------
(* Environment-provided controller configuration *)

OrgNames == {"", "acme", "ghost"}

AuthKinds == {"none", "user_only", "userpass", "token"}

ProjectNameOverrides == {"", "override"}

Urls == {"https://github.com/org/repo.git", "https://github.com/org/other.git"}

Branches == {"main", "dev"}

Envs ==
    [controller_url : BOOLEAN, org_name : OrgNames, auth : AuthKinds,
     project_name : ProjectNameOverrides]

NoEnv == [controller_url |-> FALSE, org_name |-> "", auth |-> "none", project_name |-> ""]

NoArgs == [repository_url |-> "", branch |-> ""]

\* sync_to_aap's locals, which client operation raised what (if one did), and
\* the shape of the "id" entry of the project upsert_project returned.
NoLocals ==
    [project_name |-> "", org_id |-> 0, project_id |-> 0, found |-> FALSE,
     failed_op |-> "", failure |-> NoExc, project |-> ""]

\* AAPConfig.from_env(): None when the base URL is absent; ValueError when the
\* organization name or the credentials are missing; the configuration otherwise.
from_env(e) ==
    IF ~e.controller_url THEN [kind |-> "None", exc |-> NoExc]
    ELSE IF e.org_name = "" THEN
        [kind |-> "raise", exc |-> Exc("ValueError", "AAP_ORG_NAME is required")]
    ELSE IF e.auth \notin {"userpass", "token"} THEN
        [kind |-> "raise",
         exc |-> Exc("ValueError", "AAP_USERNAME and AAP_PASSWORD or AAP_OAUTH_TOKEN are required")]
    ELSE [kind |-> "cfg", exc |-> NoExc]

\* infer_aap_project_name(repository_url): the repository's name.
infer_aap_project_name(url) ==
    IF url = "https://github.com/org/repo.git" THEN "repo" ELSE "other"

\* infer_aap_project_description(repository_url, branch)
infer_aap_project_description(url, branch) == <<url, branch>>

----------------------------------------------------------------------------
(* Automation-controller client and the controller behind it *)

\* Organizations known to the controller, by exact name.
Organizations(name) == IF name = "acme" THEN {1} ELSE {}

ProjectNames == {"repo", "other", "override"}

Key(p) == <<p.org_id, p.name>>

Matching(ctl, org_id, name) == {p \in ctl : p.org_id = org_id /\ p.name = name}

NextProjectId(ctl) == Cardinality(ctl) + 1

\* Variant: a project is created on every call.
upsert_project_AlwaysCreates(ctl, org_id, name, scm_url, scm_branch, description) ==
    ctl \cup {[id |-> NextProjectId(ctl), org_id |-> org_id, name |-> name,
               scm_url |-> scm_url, scm_branch |-> scm_branch,
               description |-> description]}

\* upsert_project: update the SCM fields of the project named `name` in the
\* organization when there is one, create it otherwise.
upsert_project(ctl, org_id, name, scm_url, scm_branch, description) ==
    IF Matching(ctl, org_id, name) # {}
    THEN {IF p \in Matching(ctl, org_id, name)
            THEN [p EXCEPT !.scm_url = scm_url, !.scm_branch = scm_branch,
                           !.description = description]
            ELSE p : p \in ctl}
    ELSE ctl \cup {[id |-> NextProjectId(ctl), org_id |-> org_id, name |-> name,
                    scm_url |-> scm_url, scm_branch |-> scm_branch,
                    description |-> description]}

\* The id of the upserted project, as the controller knows it.
UpsertedId(ctl, org_id, name) == (CHOOSE p \in Matching(ctl, org_id, name) : TRUE).id

\* The error kinds the client raises: network failures and API failures.
ClientErrors ==
    {Exc("RequestException", "connection refused"),
     Exc("RuntimeError", "AAP API request failed")}

NetworkError == Exc("RequestException", "connection refused")

\* Shapes of the "id" entry of a project representation.
ProjectIdShapes == {"int", "missing", "zero", "null", "text"}

ProjectRepr(shape, id) ==
    CASE shape = "int" -> [has_id |-> TRUE, id |-> JInt(id)]
      [] shape = "zero" -> [has_id |-> TRUE, id |-> JInt(0)]
      [] shape = "null" -> [has_id |-> TRUE, id |-> JNull]
      [] shape = "text" -> [has_id |-> TRUE, id |-> JStr("abc")]
      [] OTHER -> [has_id |-> FALSE, id |-> JNull]

\* Shapes of the response to a project update request.
UpdateShapes == {"full", "no_id", "no_status", "null_id"}

UpdateRepr(shape, id) ==
    CASE shape = "full" -> [has_id |-> TRUE, id |-> JInt(id), has_status |-> TRUE, status |-> "pending"]
      [] shape = "no_id" -> [has_id |-> FALSE, id |-> JNull, has_status |-> TRUE, status |-> "pending"]
      [] shape = "no_status" -> [has_id |-> TRUE, id |-> JInt(id), has_status |-> FALSE, status |-> ""]
      [] OTHER -> [has_id |-> TRUE, id |-> JNull, has_status |-> TRUE, status |-> "pending"]

\* The id the controller gives the update job of a project.
JobId(project_id) == 100 + project_id

----------------------------------------------------------------------------
(* sync_to_aap *)

\* How a call ended.
Running == [kind |-> "none", result |-> AAPSyncResult, exc |-> NoExc]

Returned(r) == [kind |-> "returned", result |-> r, exc |-> NoExc]

Raised(e) == [kind |-> "raised", result |-> AAPSyncResult, exc |-> e]

\* The parameters of sync_to_aap.
sync_to_aap_params == {"repository_url", "branch"}

\* Python's binding of keyword arguments to the parameters (none has a default).
Binds(kwargs) == kwargs = sync_to_aap_params

\* Variant: a missing configuration is not treated as "disabled".
ConfigStep_NoneProceeds(e) ==
    LET c == from_env(e)
    IN  IF c.kind = "raise"
        THEN IF c.exc.type = "ValueError"
             THEN Returned(from_error(c.exc.msg))
             ELSE Raised(c.exc)
        ELSE Running

\* Variant: a configuration error is reported as "disabled".
ConfigStep_ErrorAsDisabled(e) ==
    LET c == from_env(e)
    IN  IF c.kind \in {"raise", "None"} THEN Returned(disabled) ELSE Running

\* try: cfg = AAPConfig.from_env() / except ValueError / if cfg is None
ConfigStep(e) ==
    LET c == from_env(e)
    IN  IF c.kind = "raise"
        THEN IF c.exc.type = "ValueError"
             THEN Returned(from_error(c.exc.msg))
             ELSE Raised(c.exc)
        ELSE IF c.kind = "None" THEN Returned(disabled)
        ELSE Running

\* project_name = settings.aap.project_name or infer_aap_project_name(repository_url)
ProjectName(e, url) ==
    IF e.project_name # "" THEN e.project_name ELSE infer_aap_project_name(url)

\* Variant: the except clause without the network error class.
Caught_NoRequestException(type) == type \in {"RuntimeError", "ValueError"}

\* except (requests.exceptions.RequestException, RuntimeError, ValueError)
Caught(type) == type \in {"RequestException", "RuntimeError", "ValueError"}

\* An exception inside the try block: an error result or propagation.
OnException(e) == IF Caught(e.type) THEN Returned(from_error(e.msg)) ELSE Raised(e)

\* Variant: a representation without an id is taken for project 1.
ProjectIdOf_DefaultOne(project) == PyInt(IF project.has_id THEN project.id ELSE JInt(1))

\* project_id = int(project.get("id", 0))
ProjectIdOf(project) == PyInt(IF project.has_id THEN project.id ELSE JInt(0))

\* The populated result returned after start_project_update.
SuccessResult(project_name, project_id, update) ==
    LET uid == IF update.has_id THEN PyInt(update.id)
               ELSE [ok |-> TRUE, val |-> 0, exc |-> NoExc]
    IN  IF ~uid.ok THEN OnException(uid.exc)
        ELSE Returned(
               [enabled |-> TRUE,
                project_name |-> project_name,
                project_id |-> Some(project_id),
                project_update_id |-> IF update.has_id THEN Some(uid.val) ELSE None,
                project_update_status |-> IF update.has_status THEN update.status ELSE "",
                error |-> ""])

\* The end of a call: nothing more of it runs.
Finish(r) ==
    /\ sres' = r
    /\ spc' = "done"

\* The client operation `op` raises `e` inside the try block.
OpRaises(op, e, found) ==
    /\ locals' = [locals EXCEPT !.failed_op = op, !.failure = e, !.found = found]
    /\ Finish(OnException(e))

\* A caller invokes sync_to_aap with keyword arguments `kwargs`.
Enter(who, kwargs) ==
    /\ \E e \in Envs, url \in Urls, branch \in Branches :
         /\ env' = e
         /\ sargs' = [repository_url |-> url, branch |-> branch]
    /\ caller' = who
    /\ calls' = <<>>
    /\ locals' = NoLocals
    /\ pres' = Running
    /\ IF Binds(kwargs)
       THEN /\ entered' = TRUE
            /\ spc' = "config"
            /\ sres' = Running
       ELSE /\ entered' = FALSE
            /\ Finish(Raised(Exc("TypeError", "unexpected keyword argument")))
    /\ UNCHANGED <<controller, pvars, tvars, avars, cvars>>

\* sync_to_aap(repository_url=..., branch=...)
SyncCall ==
    /\ spc = "idle"
    /\ Enter("direct", {"repository_url", "branch"})

\* Reading the connection configuration.
SyncConfig ==
    /\ spc = "config"
    /\ IF ConfigStep(env).kind = "none"
       THEN spc' = "settings" /\ UNCHANGED sres
       ELSE Finish(ConfigStep(env))
    /\ UNCHANGED <<env, sargs, entered, caller, calls, locals, pres, controller, pvars, tvars, avars, cvars>>

\* settings = get_settings() and the project name; outside any try block.
SyncSettings ==
    /\ spc = "settings"
    /\ \/ /\ spc' = "org"
          /\ locals' = [locals EXCEPT !.project_name = ProjectName(env, sargs.repository_url)]
          /\ UNCHANGED sres
       \/ /\ Finish(Raised(Exc("ValidationError", "invalid settings")))
          /\ UNCHANGED locals
    /\ UNCHANGED <<env, sargs, entered, caller, calls, pres, controller, pvars, tvars, avars, cvars>>

\* org_id = client.find_organization_id(name=cfg.organization_name)
SyncFindOrg ==
    /\ spc = "org"
    /\ calls' = Append(calls, "find_organization_id")
    /\ \/ /\ Cardinality(Organizations(env.org_name)) = 1
          /\ locals' = [locals EXCEPT !.org_id = CHOOSE o \in Organizations(env.org_name) : TRUE]
          /\ spc' = "upsert"
          /\ UNCHANGED sres
       \/ /\ Cardinality(Organizations(env.org_name)) # 1
          /\ OpRaises("find_organization_id",
                      Exc("RuntimeError", "AAP organization not found or ambiguous"), FALSE)
       \/ OpRaises("find_organization_id", NetworkError, FALSE)
    /\ UNCHANGED <<env, sargs, entered, caller, pres, controller, pvars, tvars, avars, cvars>>

\* project = client.upsert_project(...); project_id = int(project.get("id", 0))
SyncUpsert ==
    /\ spc = "upsert"
    /\ calls' = Append(calls, "upsert_project")
    /\ LET found == Matching(controller, locals.org_id, locals.project_name) # {}
           done == upsert_project(controller, locals.org_id, locals.project_name,
                                  sargs.repository_url, sargs.branch,
                                  infer_aap_project_description(sargs.repository_url, sargs.branch))
       IN  \/ \* the request fails before the controller acts on it
              /\ \E e \in ClientErrors : OpRaises("upsert_project", e, FALSE)
              /\ UNCHANGED controller
           \/ \* the controller acts, the response is lost
              /\ controller' = done
              /\ OpRaises("upsert_project", NetworkError, found)
           \/ \* the controller acts and answers
              /\ controller' = done
              /\ \E shape \in ProjectIdShapes :
                   LET project == ProjectRepr(shape, UpsertedId(done, locals.org_id, locals.project_name))
                       pid == ProjectIdOf(project)
                   IN  IF ~pid.ok THEN
                           /\ Finish(OnException(pid.exc))
                           /\ locals' = [locals EXCEPT !.found = found, !.project = shape]
                       ELSE IF pid.val = 0 THEN
                           /\ Finish(Returned(from_error("AAP API did not return a project id")))
                           /\ locals' = [locals EXCEPT !.found = found, !.project = shape]
                       ELSE
                           /\ spc' = "update"
                           /\ locals' = [locals EXCEPT !.found = found, !.project = shape,
                                                       !.project_id = pid.val]
                           /\ UNCHANGED sres
    /\ UNCHANGED <<env, sargs, entered, caller, pres, pvars, tvars, avars, cvars>>

\* update = client.start_project_update(project_id=project_id) and the return
SyncStartUpdate ==
    /\ spc = "update"
    /\ calls' = Append(calls, "start_project_update")
    /\ \/ \E e \in ClientErrors : OpRaises("start_project_update", e, locals.found)
       \/ /\ \E shape \in UpdateShapes :
               Finish(SuccessResult(locals.project_name, locals.project_id,
                                    UpdateRepr(shape, JobId(locals.project_id))))
          /\ UNCHANGED locals
    /\ UNCHANGED <<env, sargs, entered, caller, pres, controller, pvars, tvars, avars, cvars>>

----------------------------------------------------------------------------
(* publish_aap and the result constructors *)

\* publish_aap(target_repo, target_branch, project_id) passes the three on:
\* sync_to_aap(repository_url=..., branch=..., project_id=...)
PublishAapCall ==
    /\ spc = "idle"
    /\ Enter("publish_aap", {"repository_url", "branch", "project_id"})

\* What publish_aap makes of the end of its sync_to_aap call.
publish_aap(r) ==
    IF r.kind = "raised" THEN Raised(r.exc)
    ELSE IF ~r.result.enabled THEN Raised(Exc("RuntimeError", "AAP is not configured"))
    ELSE IF r.result.error # "" THEN Raised(Exc("RuntimeError", r.result.error))
    ELSE Returned(r.result)

PublishAapFinish ==
    /\ spc = "done"
    /\ caller = "publish_aap"
    /\ pres.kind = "none"
    /\ pres' = publish_aap(sres)
    /\ UNCHANGED <<env, sargs, spc, entered, caller, calls, locals, sres, controller, pvars, tvars, avars, cvars>>

\* Texts an error result is built from.
Messages == {"", "Connection refused"}

\* AAPSyncResult.disabled() and AAPSyncResult.from_error(msg) called on their own.
Construct ==
    /\ spc = "idle"
    /\ \/ sres' = Returned(disabled)
       \/ \E msg \in Messages : sres' = Returned(from_error(msg))
    /\ spc' = "done"
    /\ caller' = "constructor"
    /\ entered' = FALSE
    /\ calls' = <<>>
    /\ env' = NoEnv
    /\ sargs' = NoArgs
    /\ locals' = NoLocals
    /\ pres' = Running
    /\ UNCHANGED <<controller, pvars, tvars, avars, cvars>>

\* The caller has the outcome; the next call starts from scratch.
Return ==
    /\ spc = "done"
    /\ caller = "publish_aap" => pres.kind # "none"
    /\ spc' = "idle"
    /\ env' = NoEnv
    /\ sargs' = NoArgs
    /\ entered' = FALSE
    /\ caller' = "direct"
    /\ calls' = <<>>
    /\ locals' = NoLocals
    /\ sres' = Running
    /\ pres' = Running
    /\ UNCHANGED <<controller, pvars, tvars, avars, cvars>>

----------------------------------------------------------------------------
(* The project directory and the primitives of tools.py working on it *)

\* Most publish_project calls in one behaviour.
MaxCalls == 2

Roles == {"a", "b"}

\* Paths inside the project directory; the directory itself is <<>>.
CfgPath == <<"ansible.cfg">>

ReqPath == <<"collections", "requirements.yml">>

InvPath == <<"inventory", "hosts.yml">>

RolePath(r) == <<"roles", r>>

PlaybookPath(r) == <<"playbooks", r>>

Structure == {<<"collections">>, <<"inventory">>, <<"roles">>, <<"playbooks">>}

GlobalFiles == {CfgPath, ReqPath, InvPath}

Paths ==
    {<<>>} \cup Structure \cup GlobalFiles
        \cup {RolePath(r) : r \in Roles} \cup {PlaybookPath(r) : r \in Roles}

Parent(p) == SubSeq(p, 1, Len(p) - 1)

Ancestors(p) == {SubSeq(p, 1, n) : n \in 0..Len(p)}

\* What is at a path: nothing, a file, or a directory; `content` is a set of
\* entries (a file's text, a role directory's relative paths).
Absent == [kind |-> "absent", content |-> {}, mtime |-> 0]

File(content, t) == [kind |-> "file", content |-> content, mtime |-> t]

Dir(content) == [kind |-> "dir", content |-> content, mtime |-> 0]

Exists(f, p) == f[p].kind # "absent"

EmptyDisk == [p \in Paths |-> Absent]

\* How a primitive ends: the disk it leaves and the exception it raises ("" = none).
Res(f, e) == [fs |-> f, exc |-> e]

\* Path.mkdir(parents=True, exist_ok=True)
Mkdirs(f, p) ==
    [q \in Paths |-> IF q \in Ancestors(p) /\ ~Exists(f, q) THEN Dir({}) ELSE f[q]]

\* create_directory_structure: the base directory, then every listed directory;
\* the failures (`failing`) are collected and raised after the loop.
create_directory_structure(f, structure, failing) ==
    IF <<>> \in failing THEN Res(f, "OSError")
    ELSE LET made == {d \in structure : d \notin failing}
             g == [q \in Paths |->
                     IF (q = <<>> \/ q \in made) /\ ~Exists(f, q) THEN Dir({}) ELSE f[q]]
         IN  Res(g, IF structure \cap failing # {} THEN "OSError" ELSE "")

\* Names never copied, at any depth of the role tree.
excluded_items == {"export-output.md", ".checklist.json", ".ansible"}

\* Exclusion applied to the top level of the role only.
ignore_files_TopLevelOnly(tree) ==
    {e \in tree : e[1] \notin excluded_items}

\* shutil.copytree(..., ignore=ignore_files): the entries none of whose
\* components is excluded.
ignore_files(tree) ==
    {e \in tree : \A i \in 1..Len(e) : e[i] \notin excluded_items}

\* copy_role_directory into the project directory: checks on the source, then
\* parent mkdir, removal of an existing destination, copytree; `mode` is where
\* the copy breaks, if it does.
copy_role_into_project(f, src, dest, mode) ==
    IF src.kind = "absent" THEN Res(f, "FileNotFoundError")
    ELSE IF src.kind # "dir" THEN Res(f, "ValueError")
    ELSE IF mode = "mkdir" THEN Res(f, "OSError")
    ELSE LET g == Mkdirs(f, Parent(dest))
             removed == [g EXCEPT ![dest] = Absent]
         IN  CASE mode = "copytree_start" -> Res(removed, "OSError")
               [] mode = "copytree_mid" -> Res([removed EXCEPT ![dest] = Dir({})], "OSError")
               [] OTHER -> Res([removed EXCEPT ![dest] = Dir(ignore_files(src.content))], "")

\* The body shared by the generate_* functions: render the template, make the
\* parent directory, open the file for writing, write; any failure is an OSError.
Generate(f, path, content, t, mode) ==
    IF mode = "render" THEN Res(f, "OSError")
    ELSE LET g == Mkdirs(f, Parent(path))
         IN  IF mode = "write"
             THEN Res([g EXCEPT ![path] = File({}, t)], "OSError")
             ELSE Res([g EXCEPT ![path] = File(content, t)], "")

\* A generation that leaves an ansible.cfg that is there alone.
generate_ansible_cfg_KeepExisting(f, t, mode) ==
    IF Exists(f, CfgPath) THEN Res(f, "") ELSE Generate(f, CfgPath, {<<"[defaults]">>}, t, mode)

generate_ansible_cfg(f, t, mode) == Generate(f, CfgPath, {<<"[defaults]">>}, t, mode)

\* collections: None (the sample manifest) or the loaded list
generate_collections_requirements(f, collections, t, mode) ==
    Generate(f, ReqPath, {<<"collections", collections>>}, t, mode)

\* inventory: None (the sample inventory) or the loaded mapping
generate_inventory_file(f, inventory, t, mode) ==
    Generate(f, InvPath, {<<"inventory", inventory>>}, t, mode)

generate_playbook_yaml(f, role_name, t, mode) ==
    Generate(f, PlaybookPath(role_name), {<<"role", role_name>>}, t, mode)

\* verify_files_exist: FileNotFoundError when a listed path is missing.
verify_files_exist(f, paths) ==
    Res(f, IF \E p \in paths : ~Exists(f, p) THEN "FileNotFoundError" ELSE "")

\* An override file as the loaders meet it: what the existence probe says, the
\* suffix of its name, whether it opens, and its text.
Probes == {"missing", "present", "error"}

Suffixes == {".yaml", ".yml", ".json", ".YML", ".txt"}

Opens == {"ok", "denied"}

\* Texts: a JSON list, a JSON object, a YAML block sequence, a YAML block
\* mapping, a bare word, nothing, unbalanced brackets, bytes that do not decode.
Texts == {"json_list", "json_dict", "yaml_list", "yaml_dict", "scalar", "empty",
          "garbage", "undecodable"}

Files == [probe : Probes, suffix : Suffixes, open : Opens, text : Texts]

\* How a call ends: the value returned, or the type of the exception raised.
Returns(v) == [value |-> v, exc |-> ""]

Raises(e) == [value |-> "", exc |-> e]

\* str.lower() on the suffixes at hand
Lower(suffix) == IF suffix = ".YML" THEN ".yml" ELSE suffix

\* LOADERS.get(suffix.lower(), json.load)
LOADERS(suffix) ==
    IF Lower(suffix) \in {".yaml", ".yml"} THEN "yaml.safe_load" ELSE "json.load"

\* yaml.safe_load / json.load on the text of an opened file: the type of the
\* parsed value, or the exception.
Parse(loader, text) ==
    CASE text = "undecodable" -> Raises("UnicodeDecodeError")
      [] text = "json_list" -> Returns("list")
      [] text = "json_dict" -> Returns("dict")
      [] loader = "json.load" -> Raises("JSONDecodeError")
      [] text = "yaml_list" -> Returns("list")
      [] text = "yaml_dict" -> Returns("dict")
      [] text = "scalar" -> Returns("str")
      [] text = "empty" -> Returns("NoneType")
      [] OTHER -> Raises("YAMLError")

\* _load_yaml_or_json: open the file, pick the loader by suffix, parse.
load_yaml_or_json(file) ==
    IF file.open # "ok" THEN Raises("PermissionError")
    ELSE Parse(LOADERS(file.suffix), file.text)

\* The body shared by load_collections_file and load_inventory_file.
LoadFile(file, expected) ==
    IF file.probe = "error" THEN Raises("OSError")
    ELSE IF file.probe = "missing" THEN Returns("None")
    ELSE LET data == load_yaml_or_json(file)
         IN  IF data.exc \in {"YAMLError", "JSONDecodeError"} THEN Raises("ValueError")
             ELSE IF data.exc # "" THEN Raises("RuntimeError")
             ELSE IF data.value # expected THEN Raises("TypeError")
             ELSE data

\* load_collections_file: the top-level value must be a list.
load_collections_file(file) == LoadFile(file, "list")

\* load_inventory_file: the top-level value must be a mapping.
load_inventory_file(file) == LoadFile(file, "dict")

\* What an override file given to publish_project holds: not given, a list, a
\* mapping.
FileInputs == {"none", "list", "dict"}

\* The file on disk holding `shape`.
GivenFile(shape) ==
    [probe |-> "present", suffix |-> ".yml", open |-> "ok",
     text |-> IF shape = "list" THEN "yaml_list" ELSE "yaml_dict"]

----------------------------------------------------------------------------
(* copy_role_directory and verify_files_exist on a disk of any shape *)

\* A disk is the set of its entries; an entry is a path and "file" or "dir".
Node(p, k) == [path |-> p, kind |-> k]

\* p is root or lies below it.
Under(p, root) == Len(p) >= Len(root) /\ SubSeq(p, 1, Len(root)) = root

\* p lies below root.
Inside(p, root) == Under(p, root) /\ Len(p) > Len(root)

\* p relative to root.
Rel(p, root) == SubSeq(p, Len(root) + 1, Len(p))

\* "absent", "file" or "dir"
KindAt(disk, p) ==
    IF \E n \in disk : n.path = p THEN (CHOOSE n \in disk : n.path = p).kind ELSE "absent"

\* The entries of the tree below root, relative to it.
TreeAt(disk, root) ==
    {Node(Rel(n.path, root), n.kind) : n \in {m \in disk : Inside(m.path, root)}}

\* How a step on the disk ends.
DiskRes(disk, e) == [disk |-> disk, exc |-> e]

\* Path.mkdir(parents=True, exist_ok=True): fails when p or a parent is a file.
mkdir_parents(disk, p) ==
    LET chain == {SubSeq(p, 1, n) : n \in 1..Len(p)}
    IN  IF \E a \in chain : KindAt(disk, a) = "file" THEN DiskRes(disk, "FileExistsError")
        ELSE DiskRes(disk \cup {Node(a, "dir") : a \in {b \in chain : KindAt(disk, b) = "absent"}},
                     "")

\* A removal that takes the entry at p and leaves what lies below it.
rmtree_TopOnly(disk, p) == {n \in disk : n.path # p}

\* shutil.rmtree(p) / Path.unlink(): p and everything below it goes.
rmtree(disk, p) == {n \in disk : ~Under(n.path, p)}

\* shutil.copytree(src, dst, dirs_exist_ok=False, ignore=ignore_files). A
\* destination deeper inside the source than its top level is met again while
\* the tree is walked: the copy then nests into itself until a path is too long.
copytree(disk, src, dst, mode) ==
    IF KindAt(disk, src) # "dir" THEN DiskRes(disk, "FileNotFoundError")
    ELSE IF KindAt(disk, dst) # "absent" THEN DiskRes(disk, "FileExistsError")
    ELSE IF mode = "copytree_start" THEN DiskRes(disk, "PermissionError")
    ELSE LET kept == ignore_files({n.path : n \in TreeAt(disk, src)})
             copies == {Node(dst \o n.path, n.kind) : n \in {m \in TreeAt(disk, src) : m.path \in kept}}
             made == disk \cup {Node(dst, "dir")}
         IN  IF mode = "copytree_mid" THEN DiskRes(made, "Error")
             ELSE IF /\ Inside(Parent(dst), src)
                     /\ ignore_files({Rel(Parent(dst), src)}) # {}
             THEN DiskRes(made \cup copies \cup {Node(dst \o Rel(dst, src), "dir")}, "Error")
             ELSE DiskRes(made \cup copies, "")

\* The source looks like a role: it has tasks/ or meta/.
has_role_structure(disk, source) ==
    \E d \in {"tasks", "meta"} : KindAt(disk, Append(source, d)) # "absent"

\* copy_role_directory(source_role_path, destination_path); `mode` is where the
\* call breaks, if it does ("probe": the stat() of source_path_obj.exists()
\* fails for another reason than the entry not being there).
copy_role_directory(disk, source, destination, mode) ==
    IF mode = "probe" THEN DiskRes(disk, "OSError")
    ELSE IF KindAt(disk, source) = "absent" THEN DiskRes(disk, "FileNotFoundError")
    ELSE IF KindAt(disk, source) # "dir" THEN DiskRes(disk, "ValueError")
    ELSE IF mode = "mkdir" THEN DiskRes(disk, "OSError")
    ELSE LET parents == mkdir_parents(disk, Parent(destination))
         IN  IF parents.exc # "" THEN DiskRes(disk, "OSError")
             ELSE IF mode = "rmtree" /\ KindAt(parents.disk, destination) # "absent"
             THEN DiskRes({n \in parents.disk : ~Inside(n.path, destination)}, "OSError")
             ELSE LET copied == copytree(rmtree(parents.disk, destination),
                                         source, destination, mode)
                  IN  DiskRes(copied.disk, IF copied.exc = "" THEN "" ELSE "OSError")

\* How create_directory_structure ends: the exception, the two lists of its
\* message (failed entries as listed, created ones as full paths), the disk.
DirsRes(e, failed, created, disk) ==
    [exc |-> e, failed |-> failed, created |-> created, disk |-> disk]

\* Path.mkdir(parents=True, exist_ok=True) where making an entry of `denied`
\* is refused: "" or the exception raised.
MkdirError(disk, p, denied) ==
    IF mkdir_parents(disk, p).exc # "" THEN mkdir_parents(disk, p).exc
    ELSE IF \E n \in mkdir_parents(disk, p).disk \ disk : n.path \in denied
    THEN "PermissionError"
    ELSE ""

\* A loop over the listed directories that gives up at the first failure.
RECURSIVE MkdirEach_StopAtFirst(_, _, _, _, _, _, _)
MkdirEach_StopAtFirst(disk, base, structure, denied, i, failed, created) ==
    IF i > Len(structure) THEN DirsRes("", failed, created, disk)
    ELSE IF MkdirError(disk, base \o structure[i], denied) # ""
    THEN DirsRes("OSError", Append(failed, structure[i]), created, disk)
    ELSE MkdirEach_StopAtFirst(mkdir_parents(disk, base \o structure[i]).disk, base,
             structure, denied, i + 1, failed, Append(created, base \o structure[i]))

\* The loop over the listed directories: a failure is noted and the loop goes
\* on; the collected failures are raised as one OSError after it.
RECURSIVE MkdirEach(_, _, _, _, _, _, _)
MkdirEach(disk, base, structure, denied, i, failed, created) ==
    IF i > Len(structure)
    THEN DirsRes(IF failed # <<>> THEN "OSError" ELSE "", failed, created, disk)
    ELSE IF MkdirError(disk, base \o structure[i], denied) # ""
    THEN MkdirEach(disk, base, structure, denied, i + 1,
             Append(failed, structure[i]), created)
    ELSE MkdirEach(mkdir_parents(disk, base \o structure[i]).disk, base, structure, denied,
             i + 1, failed, Append(created, base \o structure[i]))

\* create_directory_structure(base_path, structure) on a disk of any shape:
\* the base directory is made outside the loop, its failure is raised as it is.
create_directories(disk, base, structure, denied) ==
    IF MkdirError(disk, base, denied) # ""
    THEN DirsRes(MkdirError(disk, base, denied), <<>>, <<>>, disk)
    ELSE MkdirEach(mkdir_parents(disk, base).disk, base, structure, denied, 1, <<>>, <<>>)

\* The paths a verification can list, and what each is on the disk: there,
\* not there, or a name longer than the file system takes (nothing of that
\* name can exist, and stat() fails with ENAMETOOLONG instead of ENOENT).
VerifyPaths == {"p1", "p2"}
PathStates == {"present", "missing", "too_long"}
MaxPaths == 3
PathLists == UNION {[1..n -> VerifyPaths] : n \in 0..MaxPaths}

\* Path.exists(): True, False, or the OSError of a stat() that fails for
\* another reason than the entry not being there.
path_exists(states, p) ==
    CASE states[p] = "present" -> Returns("True")
      [] states[p] = "missing" -> Returns("False")
      [] OTHER -> Raises("OSError")

\* missing_files: the listed paths whose probe said False, in the order listed.
missing_files(file_paths, states) ==
    LET Missing(p) == path_exists(states, p).value = "False"
    IN  SelectSeq(file_paths, Missing)

\* How verify_files_exist ends: the exception, and the count and the items
\* of its message; the disk is what it was.
VerifyRes(e, missing, states) ==
    [exc |-> e, count |-> Len(missing), listed |-> missing, disk |-> states]

\* verify_files_exist(file_paths) on a disk of any shape: a probe that raises
\* ends the loop and the call.
verify_files(file_paths, states) ==
    IF \E i \in 1..Len(file_paths) : path_exists(states, file_paths[i]).exc # ""
    THEN VerifyRes("OSError", <<>>, states)
    ELSE IF missing_files(file_paths, states) # <<>>
    THEN VerifyRes("FileNotFoundError", missing_files(file_paths, states), states)
    ELSE VerifyRes("", <<>>, states)

----------------------------------------------------------------------------
(* publish_project: the project assembler *)

\* The directories a behaviour can look at: the incremental target
\* <project_id>/ansible-project, the batch target of several roles and the
\* batch target of the single role "a".
IncrementalDir == <<"project", "ansible-project">>

\* Path.resolve() with the root as working directory: "." is dropped and
\* ".." takes the component before it away.
RECURSIVE resolve(_)
resolve(p) ==
    IF p = <<>> THEN <<>>
    ELSE LET front == resolve(SubSeq(p, 1, Len(p) - 1))
             name == p[Len(p)]
         IN  CASE name = "." -> front
               [] name = ".." -> SubSeq(front, 1, Len(front) - 1)
               [] OTHER -> Append(front, name)

\* The base directory as a caller may spell it.
BasePaths == {<<"base">>, <<".", "base">>, <<"work", "..", "base">>}

\* One project directory whatever the number of roles.
deployment_dir_AlwaysProject(role_names) ==
    <<"base", "ansible", "deployments", "ansible-project">>

\* Batch mode: <base>/ansible/deployments/<role_name> for one role,
\* <base>/ansible/deployments/ansible-project for several.
deployment_dir(role_names) ==
    IF Len(role_names) = 1
    THEN <<"base", "ansible", "deployments", role_names[1]>>
    ELSE <<"base", "ansible", "deployments", "ansible-project">>

\* The deployment directory below the base path as the caller spelled it.
deployment_path(base_path, role_names) == base_path \o Tail(deployment_dir(role_names))

ProjectDirs == {IncrementalDir, deployment_dir(<<"a">>), deployment_dir(<<"a", "b">>)}

\* A migrated role as the migration stage leaves it: the role itself and the
\* stage's housekeeping artifacts.
SourceTree(r) ==
    {<<"tasks", "main.yml">>, <<"meta", "main.yml">>, <<"vars", r>>,
     <<"export-output.md">>, <<".checklist.json">>, <<".ansible", "cache">>}

SourceStates(r) == {Absent, Dir(SourceTree(r))}

\* One step of a publish call.
Step(op, role) == [op |-> op, role |-> role]

\* Where a step can break.
FaultModes(op) ==
    CASE op = "structure" -> {"base", "collections", "inventory", "roles", "playbooks"}
      [] op = "copy" -> {"mkdir", "copytree_start", "copytree_mid"}
      [] op \in {"cfg", "req", "inv", "playbook"} -> {"render", "write"}
      [] OTHER -> {}

NoFault == [at |-> 0, mode |-> "ok"]

Faults(steps) ==
    {NoFault} \cup
        UNION {{[at |-> i, mode |-> m] : m \in FaultModes(steps[i].op)} : i \in 1..Len(steps)}

\* The directories of the structure that fail to be created under fault `mode`.
FailingDirs(mode) ==
    IF mode = "ok" THEN {} ELSE IF mode = "base" THEN {<<>>} ELSE {<<mode>>}

\* The override files are loaded when given; the exception of the first
\* failure, "" when both load.
LoadOverrides(collections_file, inventory_file) ==
    LET c == IF collections_file = "none" THEN Returns("None")
             ELSE load_collections_file(GivenFile(collections_file))
        i == IF inventory_file = "none" THEN Returns("None")
             ELSE load_inventory_file(GivenFile(inventory_file))
    IN  IF c.exc # "" THEN c.exc ELSE i.exc

\* The loaded collections list / inventory mapping, None when no file was given.
Loaded(file) == IF file = "none" THEN "None" ELSE file

\* One step run on disk `f`.
Exec(f, step, mode, ctx) ==
    CASE step.op = "structure" -> create_directory_structure(f, Structure, FailingDirs(mode))
      [] step.op = "copy" ->
            copy_role_into_project(f, ctx.sources[step.role], RolePath(step.role), mode)
      [] step.op = "playbook" -> generate_playbook_yaml(f, step.role, ctx.t, mode)
      [] step.op = "cfg" -> generate_ansible_cfg(f, ctx.t, mode)
      [] step.op = "req" ->
            generate_collections_requirements(f, Loaded(ctx.collections_file), ctx.t, mode)
      [] step.op = "inv" -> generate_inventory_file(f, Loaded(ctx.inventory_file), ctx.t, mode)
      [] OTHER -> verify_files_exist(f, ctx.expected)

\* The steps in order; the first exception ends the call, nothing is rolled back.
RECURSIVE RunSteps(_, _, _, _, _)
RunSteps(f, steps, i, fault, ctx) ==
    IF i > Len(steps) THEN [fs |-> f, exc |-> "", log |-> steps]
    ELSE LET r == Exec(f, steps[i], IF fault.at = i THEN fault.mode ELSE "ok", ctx)
         IN  IF r.exc # "" THEN [fs |-> r.fs, exc |-> r.exc, log |-> SubSeq(steps, 1, i)]
             ELSE RunSteps(r.fs, steps, i + 1, fault, ctx)

\* Every call taken for the first module of its project.
is_first_module_Always(f) == TRUE

\* "First module": ansible.cfg is absent from the target.
is_first_module(f) == ~Exists(f, CfgPath)

\* The skeleton steps of the first module.
SkeletonSteps == <<Step("structure", ""), Step("cfg", ""), Step("req", ""), Step("inv", "")>>

\* Incremental mode: the steps of publish_project(project_id, module_name, ...).
IncrementalSteps(f, module_name) ==
    (IF is_first_module(f) THEN SkeletonSteps ELSE <<>>)
        \o <<Step("copy", module_name), Step("playbook", module_name), Step("verify", "")>>

\* Batch mode with the configuration written before the roles are copied.
BatchSteps_CfgFirst(role_names) ==
    <<Step("structure", ""), Step("cfg", "")>>
        \o [i \in 1..Len(role_names) |-> Step("copy", role_names[i])]
        \o [i \in 1..Len(role_names) |-> Step("playbook", role_names[i])]
        \o <<Step("req", ""), Step("inv", ""), Step("verify", "")>>

\* Batch mode: the steps of publish_project(role_names, source_paths, ...).
BatchSteps(role_names) ==
    <<Step("structure", "")>>
        \o [i \in 1..Len(role_names) |-> Step("copy", role_names[i])]
        \o [i \in 1..Len(role_names) |-> Step("playbook", role_names[i])]
        \o <<Step("cfg", ""), Step("req", ""), Step("inv", ""), Step("verify", "")>>

RoleArtifacts(role_names) ==
    UNION {{RolePath(role_names[i]), PlaybookPath(role_names[i])} : i \in 1..Len(role_names)}

Ctx(srcs, collections_file, inventory_file, t, expected) ==
    [sources |-> srcs, collections_file |-> collections_file,
     inventory_file |-> inventory_file, t |-> t, expected |-> expected]

\* What the validation made before any step decides: the exception raised, or the
\* steps to run.
Rejected(exc, msg) == [exc |-> exc, msg |-> msg, steps |-> <<>>]

Accepted(steps) == [exc |-> "", msg |-> "", steps |-> steps]

\* Incremental mode without the loading of the override files up front.
IncrementalPlan_NoShapeCheck(f, srcs, module_name, collections_file, inventory_file) ==
    IF ~Exists(srcs, module_name)
    THEN Rejected("FileNotFoundError", "Source role directory not found")
    ELSE Accepted(IncrementalSteps(f, module_name))

\* Incremental mode: the source role must exist and the override files load.
IncrementalPlan(f, srcs, module_name, collections_file, inventory_file) ==
    IF ~Exists(srcs, module_name)
    THEN Rejected("FileNotFoundError", "Source role directory not found")
    ELSE IF LoadOverrides(collections_file, inventory_file) # ""
    THEN Rejected(LoadOverrides(collections_file, inventory_file), "Invalid file format")
    ELSE Accepted(IncrementalSteps(f, module_name))

\* Batch mode without the pairing of names and paths.
BatchPlan_NoLengthCheck(role_names, n_paths, collections_file, inventory_file) ==
    IF LoadOverrides(collections_file, inventory_file) # ""
    THEN Rejected(LoadOverrides(collections_file, inventory_file), "Invalid file format")
    ELSE Accepted(BatchSteps(role_names))

\* Batch mode: names and paths must pair up and the override files load.
BatchPlan(role_names, n_paths, collections_file, inventory_file) ==
    IF Len(role_names) # n_paths THEN Rejected("ValueError", "must match")
    ELSE IF LoadOverrides(collections_file, inventory_file) # ""
    THEN Rejected(LoadOverrides(collections_file, inventory_file), "Invalid file format")
    ELSE Accepted(BatchSteps(role_names))

\* A publish call: the plan, then its steps on the disk.
publish_project(f, plan, fault, ctx) ==
    IF plan.exc # "" THEN [fs |-> f, exc |-> plan.exc, log |-> <<>>]
    ELSE RunSteps(f, plan.steps, 1, fault, ctx)

NoCall ==
    [mode |-> "none", roles |-> <<>>, paths |-> 0, load |-> "", initialized |-> FALSE,
     exc |-> "", msg |-> "", log |-> <<>>, returned |-> <<>>]

\* The call's arguments (the override files by what loading them gives) and
\* how it went, for the caller and for the properties.
CallRecord(mode, role_names, n_paths, collections_file, inventory_file, f, plan, out, dir) ==
    [mode |-> mode, roles |-> role_names, paths |-> n_paths,
     load |-> LoadOverrides(collections_file, inventory_file),
     initialized |-> ~is_first_module(f), exc |-> out.exc, msg |-> plan.msg, log |-> out.log,
     returned |-> IF out.exc = "" THEN resolve(dir) ELSE <<>>]

\* The per-role artifacts successful calls have produced, this call included.
Produced(before, role_names, out) ==
    IF out.exc = "" THEN before \cup RoleArtifacts(role_names) ELSE before

\* publish_project(project_id, module_name, collections_file, inventory_file)
PublishIncremental ==
    /\ projDir = IncrementalDir
    /\ ncalls < MaxCalls
    /\ \E m \in Roles, cf \in FileInputs, inf \in FileInputs :
         LET plan == IncrementalPlan(fs, sources, m, cf, inf)
         IN  \E fault \in Faults(plan.steps) :
               LET out == publish_project(fs, plan, fault,
                              Ctx(sources, cf, inf, ncalls + 1, RoleArtifacts(<<m>>)))
               IN  /\ fs' = out.fs
                   /\ last' = CallRecord("incremental", <<m>>, 1, cf, inf, fs, plan, out,
                                         IncrementalDir)
                   /\ published' = Produced(published, <<m>>, out)
    /\ ncalls' = ncalls + 1
    /\ UNCHANGED <<projDir, sources, svars, tvars, avars, cvars>>

RoleLists == {<<"a">>, <<"b">>, <<"a", "b">>, <<"b", "a">>}

\* publish_project(role_names, source_paths, base_path, collections_file, inventory_file)
PublishBatch ==
    /\ ncalls < MaxCalls
    /\ \E names \in RoleLists, base_path \in BasePaths, cf \in FileInputs, inf \in FileInputs :
         /\ resolve(deployment_path(base_path, names)) = projDir
         /\ \E n \in {Len(names) - 1, Len(names), Len(names) + 1} :
              LET plan == BatchPlan(names, n, cf, inf)
              IN  \E fault \in Faults(plan.steps) :
                    LET out == publish_project(fs, plan, fault,
                                   Ctx(sources, cf, inf, ncalls + 1,
                                       GlobalFiles \cup RoleArtifacts(names)))
                    IN  /\ fs' = out.fs
                        /\ last' = CallRecord("batch", names, n, cf, inf, fs, plan, out,
                                              deployment_path(base_path, names))
                        /\ published' = Produced(published, names, out)
    /\ ncalls' = ncalls + 1
    /\ UNCHANGED <<projDir, sources, svars, tvars, avars, cvars>>

----------------------------------------------------------------------------
(* The functions of tools.py called on their own *)

NoTool == [op |-> "none", args |-> <<>>, out |-> Returns("None")]

\* The functions keep nothing between calls: a behaviour is one call.
NotCalled == tool.op = "none"

\* load_collections_file(file_path)
LoadCollections ==
    /\ NotCalled
    /\ \E file \in Files :
         tool' = [op |-> "load_collections_file", args |-> <<file>>,
                  out |-> load_collections_file(file)]
    /\ UNCHANGED <<svars, pvars, avars, cvars>>

\* load_inventory_file(file_path)
LoadInventory ==
    /\ NotCalled
    /\ \E file \in Files :
         tool' = [op |-> "load_inventory_file", args |-> <<file>>,
                  out |-> load_inventory_file(file)]
    /\ UNCHANGED <<svars, pvars, avars, cvars>>

\* Where the role to copy lies.
SrcPath == <<"t", "src">>

\* A migrated role with housekeeping artifacts at the top and further down.
RoleTree ==
    {Node(<<"tasks">>, "dir"), Node(<<"tasks", "main.yml">>, "file"),
     Node(<<"export-output.md">>, "file"),
     Node(<<".ansible">>, "dir"), Node(<<".ansible", "cache">>, "file"),
     Node(<<"sub">>, "dir"), Node(<<"sub", "keep">>, "file"),
     Node(<<"sub", ".checklist.json">>, "file"),
     Node(<<"sub", ".ansible">>, "dir"), Node(<<"sub", ".ansible", "cache">>, "file")}

\* What is at the source path: a role, an empty directory, a file, nothing.
SourceShapes == {"role", "empty", "file", "absent"}

SourceNodes(shape) ==
    CASE shape = "role" ->
            {Node(SrcPath, "dir")} \cup {Node(SrcPath \o n.path, n.kind) : n \in RoleTree}
      [] shape = "empty" -> {Node(SrcPath, "dir")}
      [] shape = "file" -> {Node(SrcPath, "file")}
      [] OTHER -> {}

\* Destinations: beside the source, below directories yet to be made, the
\* source itself, its parent, inside it at the top and further down, below "p".
Destinations ==
    {<<"t", "dst">>, <<"t", "out", "roles", "r">>, SrcPath, <<"t">>,
     SrcPath \o <<"dst">>, SrcPath \o <<"sub", "dst">>, <<"t", "p", "dst">>}

\* What is at the destination before the call: nothing, a file, a directory
\* holding an earlier copy, or nothing with a file where its parent should be.
DestStates == {"absent", "file", "dir", "parent_file"}

OldTree ==
    {Node(<<"old">>, "file"), Node(<<"tasks">>, "dir"), Node(<<"tasks", "old.yml">>, "file"),
     Node(<<"export-output.md">>, "file")}

AncestorDirs(p) == {Node(SubSeq(p, 1, n), "dir") : n \in 1..(Len(p) - 1)}

DestNodes(dst, state) ==
    CASE state = "file" -> {Node(dst, "file")} \cup AncestorDirs(dst)
      [] state = "dir" ->
            {Node(dst, "dir")} \cup {Node(dst \o n.path, n.kind) : n \in OldTree}
                \cup AncestorDirs(dst)
      [] state = "parent_file" -> {Node(Parent(dst), "file")} \cup AncestorDirs(Parent(dst))
      [] OTHER -> {}

MakeDisk(shape, dst, state) ==
    {Node(<<"t">>, "dir")} \cup SourceNodes(shape) \cup DestNodes(dst, state)

\* One kind per path, and every entry inside a directory.
WellFormed(disk) ==
    /\ \A n \in disk : n.path # <<>>
    /\ \A n \in disk, m \in disk : n.path = m.path => n = m
    /\ \A n \in disk : \A k \in 1..(Len(n.path) - 1) : Node(SubSeq(n.path, 1, k), "dir") \in disk

CopyModes == {"ok", "probe", "mkdir", "rmtree", "copytree_start", "copytree_mid"}

\* The call on the disk made of the three choices, and how it ends.
CopyCall(shape, dst, state, mode) ==
    [op |-> "copy_role_directory", args |-> <<MakeDisk(shape, dst, state), SrcPath, dst>>,
     out |-> copy_role_directory(MakeDisk(shape, dst, state), SrcPath, dst, mode),
     fault |-> mode,
     warned |-> /\ mode # "probe"
                /\ KindAt(MakeDisk(shape, dst, state), SrcPath) = "dir"
                /\ ~has_role_structure(MakeDisk(shape, dst, state), SrcPath)]

\* The calls whose disk is one a file system can hold.
CopyInputs ==
    {i \in SourceShapes \X Destinations \X DestStates \X CopyModes :
        /\ WellFormed(MakeDisk(i[1], i[2], i[3]))
        /\ i[4] = "probe" => i[1] = "absent"}

\* copy_role_directory(source_role_path, destination_path)
CopyRole ==
    /\ NotCalled
    /\ \E i \in CopyInputs : tool' = CopyCall(i[1], i[2], i[3], i[4])
    /\ UNCHANGED <<svars, pvars, avars, cvars>>

\* Where the structure is made, the directories a caller lists, the disks it
\* can meet and the entries whose creation can be refused.
BasePath == <<"d">>
MaxDirs == 2
Subdirs == {<<"x">>, <<"y">>, <<"x", "z">>}
StructureLists == UNION {[1..n -> Subdirs] : n \in 0..MaxDirs}
EntryKinds == {"absent", "dir", "file"}
StructureDisk(b, x, y) ==
    {Node(BasePath, b) : k \in {b} \ {"absent"}}
        \cup {Node(BasePath \o <<"x">>, x) : k \in {x} \ {"absent"}}
        \cup {Node(BasePath \o <<"y">>, y) : k \in {y} \ {"absent"}}
StructureDisks ==
    {StructureDisk(b, "absent", "absent") : b \in EntryKinds}
        \cup {StructureDisk("dir", x, y) : x \in EntryKinds, y \in EntryKinds}
Deniable == {BasePath} \cup {BasePath \o d : d \in Subdirs}

\* create_directory_structure(base_path, structure)
CreateStructure ==
    /\ NotCalled
    /\ \E disk \in StructureDisks, structure \in StructureLists, denied \in SUBSET Deniable :
         tool' = [op |-> "create_directory_structure",
                  args |-> <<disk, BasePath, structure, denied>>,
                  out |-> create_directories(disk, BasePath, structure, denied)]
    /\ UNCHANGED <<svars, pvars, avars, cvars>>

\* verify_files_exist(file_paths)
VerifyFiles ==
    /\ NotCalled
    /\ \E file_paths \in PathLists, states \in [VerifyPaths -> PathStates] :
         tool' = [op |-> "verify_files_exist", args |-> <<file_paths, states>>,
                  out |-> verify_files(file_paths, states)]
    /\ UNCHANGED <<svars, pvars, avars, cvars>>

----------------------------------------------------------------------------
(* PublishAgent and publish_role *)

\* What a tool gives back: a text (its characters) or an exception.
ToolTexts ==
    {<<"o", "k">>, <<"E", "R", "R", "O", "R">>, <<"x", "E", "R", "R", "O", "R", "S">>,
     <<"e", "r", "r", "o", "r">>, <<"E", "R", "R">>}

ToolAnswers ==
    {[kind |-> "text", text |-> t] : t \in ToolTexts}
        \cup {[kind |-> "raise", text |-> <<"b", "o", "o", "m">>]}

\* The role paths a caller passes, by what Path(role_path).exists() does with
\* them: True, False, or the OSError of a stat() that fails otherwise.
RolePaths == {"present", "missing", "unprobeable"}

\* Variant: the marker is looked for in any letter case.
ContainsError_AnyCase(text) ==
    \E i \in 1..Len(text) - 4 :
        SubSeq(text, i, i + 4) \in {<<"E", "R", "R", "O", "R">>, <<"e", "r", "r", "o", "r">>}

\* "ERROR" in result
ContainsError(text) ==
    \E i \in 1..Len(text) - 4 : SubSeq(text, i, i + 4) = <<"E", "R", "R", "O", "R">>

\* The initial state publish_role builds.
InitialState(role_name, role_path) ==
    [role |-> role_name, role_path |-> role_path, role_registered |-> FALSE,
     job_template_created |-> FALSE, publish_output |-> <<>>, failed |-> FALSE,
     failure_reason |-> <<>>]

NoState == InitialState("", "")

\* state["failed"] = True; state["failure_reason"] = f"{prefix}: {detail}"
Fail(st, prefix, detail) ==
    [st EXCEPT !.failed = TRUE, !.failure_reason = <<prefix, detail>>]

\* The body shared by the three nodes after their guard: the tool's answer
\* fails the run when it is an exception or a text with the marker; `done` is
\* the state of the else branch.
AfterTool(st, prefix, answer, done) ==
    IF answer.kind = "raise" THEN Fail(st, prefix, answer.text)
    ELSE IF ContainsError(answer.text) THEN Fail(st, prefix, answer.text)
    ELSE done

\* Whether a node gets as far as invoking its tool.
Invokes(st, node_name) ==
    /\ ~st.failed
    /\ node_name = "push_to_github" => st.role_path = "present"

\* _push_to_github
push_to_github(st, answer) ==
    IF st.failed THEN st
    ELSE IF st.role_path = "missing"
    THEN Fail(st, "Role path does not exist", <<>>)
    ELSE AfterTool(st, "Failed to push to GitHub", answer, st)

\* A node that does not look at the failed flag.
register_role_NoGuard(st, answer) ==
    AfterTool(st, "Failed to register role in AAP", answer,
              [st EXCEPT !.role_registered = TRUE])

\* _register_role
register_role(st, answer) ==
    IF st.failed THEN st
    ELSE AfterTool(st, "Failed to register role in AAP", answer,
                   [st EXCEPT !.role_registered = TRUE])

\* _create_job_template
create_job_template(st, answer) ==
    IF st.failed THEN st
    ELSE AfterTool(st, "Failed to create job template", answer,
                   [st EXCEPT !.job_template_created = TRUE,
                              !.publish_output = <<"Role", st.role, "published successfully">>])

\* The edges of the workflow.
NextNode(node_name) ==
    CASE node_name = "push_to_github" -> "register_role"
      [] node_name = "register_role" -> "create_job_template"
      [] OTHER -> "END"

\* A node has run: the tool it invoked (if it did) with its answer, the state
\* it returned, the edge taken.
NodeDone(node_name, answer, st) ==
    /\ invoked' = IF Invokes(publish_state, node_name)
                  THEN Append(invoked, [tool |-> node_name, answer |-> answer])
                  ELSE invoked
    /\ publish_state' = st
    /\ graph_node' = NextNode(node_name)

\* publish_role(role_name, role_path, github_repository_url, github_branch)
PublishRole ==
    /\ graph_node = "idle"
    /\ \E role_name \in Roles, role_path \in RolePaths :
         publish_state' = InitialState(role_name, role_path)
    /\ graph_node' = "push_to_github"
    /\ invoked' = <<>>
    /\ UNCHANGED <<svars, pvars, tvars, cvars>>

\* The node push_to_github; the existence test of the role path is outside
\* the node's try block, its OSError leaves the workflow and publish_role.
PushToGithub ==
    /\ graph_node = "push_to_github"
    /\ IF ~publish_state.failed /\ publish_state.role_path = "unprobeable"
       THEN /\ graph_node' = "raised"
            /\ UNCHANGED <<publish_state, invoked>>
       ELSE \E answer \in ToolAnswers :
              NodeDone("push_to_github", answer, push_to_github(publish_state, answer))
    /\ UNCHANGED <<svars, pvars, tvars, cvars>>

\* The node register_role
RegisterRole ==
    /\ graph_node = "register_role"
    /\ \E answer \in ToolAnswers :
         NodeDone("register_role", answer, register_role(publish_state, answer))
    /\ UNCHANGED <<svars, pvars, tvars, cvars>>

\* The node create_job_template
CreateJobTemplate ==
    /\ graph_node = "create_job_template"
    /\ \E answer \in ToolAnswers :
         NodeDone("create_job_template", answer, create_job_template(publish_state, answer))
    /\ UNCHANGED <<svars, pvars, tvars, cvars>>

AgentIdle ==
    /\ graph_node = "idle"
    /\ publish_state = NoState
    /\ invoked = <<>>

----------------------------------------------------------------------------
(* Two copy_role_directory calls on one destination *)

\* The callers; each copies its own source role, a file f and a directory
\* tasks holding main.yml, and what it writes carries its number.
Copiers == {1, 2}

\* The destination: whether the directory is there, and who wrote each entry
\* (0: the entry is not there).
NoDest == [present |-> FALSE, f |-> 0, tasks |-> FALSE, main |-> 0]

\* A caller's position in the try block, the errors copytree has collected,
\* and how the call ended ("": it returned; else what the OSError is made from).
IdleCopier == [pc |-> "idle", errors |-> FALSE, exc |-> "", cause |-> ""]

CopiesIdle ==
    /\ copiers = [p \in Copiers |-> IdleCopier]
    /\ shared_dest = NoDest
    /\ ended = <<>>
    /\ overlap = FALSE

InProgress(p) == copiers[p].pc \notin {"idle", "done"}

\* Variant: the destination is never seen.
DestExists_Never(d) == FALSE

\* dest_path_obj.exists()
DestExists(d) == d.present

\* The caller moves on inside the try block.
Goto(p, pc) ==
    /\ copiers' = [copiers EXCEPT ![p].pc = pc]
    /\ UNCHANGED ended

\* The same, with an error put on copytree's list.
GotoWithError(p, pc) ==
    /\ copiers' = [copiers EXCEPT ![p].pc = pc, ![p].errors = TRUE]
    /\ UNCHANGED ended

\* except ... raise OSError(error_msg) from e
RaiseOSError(p, cause) ==
    /\ copiers' = [copiers EXCEPT ![p].pc = "done", ![p].exc = "OSError",
                                  ![p].cause = cause]
    /\ ended' = Append(ended, p)

\* The call is entered; the parent directory is made if needed.
CopyEnter ==
    /\ \E p \in Copiers :
         /\ copiers[p].pc = "idle"
         /\ Goto(p, "exists")
         /\ overlap' = (overlap \/ \E q \in Copiers \ {p} : InProgress(q))
    /\ UNCHANGED shared_dest
    /\ UNCHANGED <<svars, pvars, tvars, avars>>

\* if dest_path_obj.exists():
CopyProbe ==
    /\ \E p \in Copiers :
         /\ copiers[p].pc = "exists"
         /\ Goto(p, IF DestExists(shared_dest) THEN "rmtree" ELSE "copytree")
    /\ UNCHANGED <<shared_dest, overlap>>
    /\ UNCHANGED <<svars, pvars, tvars, avars>>

\* shutil.rmtree, first half: the entries of the directory are removed.
CopyRemoveEntries ==
    /\ \E p \in Copiers :
         /\ copiers[p].pc = "rmtree"
         /\ IF shared_dest.present
            THEN /\ shared_dest' = [NoDest EXCEPT !.present = TRUE]
                 /\ Goto(p, "rmdir")
            ELSE /\ RaiseOSError(p, "FileNotFoundError")
                 /\ UNCHANGED shared_dest
    /\ UNCHANGED overlap
    /\ UNCHANGED <<svars, pvars, tvars, avars>>

\* shutil.rmtree, second half: the directory itself is removed.
CopyRemoveDir ==
    /\ \E p \in Copiers :
         /\ copiers[p].pc = "rmdir"
         /\ IF ~shared_dest.present
            THEN /\ RaiseOSError(p, "FileNotFoundError")
                 /\ UNCHANGED shared_dest
            ELSE IF shared_dest # [NoDest EXCEPT !.present = TRUE]
            THEN /\ RaiseOSError(p, "Directory not empty")
                 /\ UNCHANGED shared_dest
            ELSE /\ shared_dest' = NoDest
                 /\ Goto(p, "copytree")
    /\ UNCHANGED overlap
    /\ UNCHANGED <<svars, pvars, tvars, avars>>

\* shutil.copytree: os.makedirs(dst, exist_ok=False)
CopyMakeDest ==
    /\ \E p \in Copiers :
         /\ copiers[p].pc = "copytree"
         /\ IF shared_dest.present
            THEN /\ RaiseOSError(p, "FileExistsError")
                 /\ UNCHANGED shared_dest
            ELSE /\ shared_dest' = [shared_dest EXCEPT !.present = TRUE]
                 /\ Goto(p, "copy_f")
    /\ UNCHANGED overlap
    /\ UNCHANGED <<svars, pvars, tvars, avars>>

\* shutil.copytree: the file of the top level is copied; a failure goes on
\* the list of errors and the walk continues.
CopyTopFile ==
    /\ \E p \in Copiers :
         /\ copiers[p].pc = "copy_f"
         /\ IF shared_dest.present
            THEN /\ shared_dest' = [shared_dest EXCEPT !.f = p]
                 /\ Goto(p, "make_tasks")
            ELSE /\ GotoWithError(p, "make_tasks")
                 /\ UNCHANGED shared_dest
    /\ UNCHANGED overlap
    /\ UNCHANGED <<svars, pvars, tvars, avars>>

\* shutil.copytree on the subdirectory: os.makedirs(dst/tasks) makes the
\* missing directories above it too; an existing dst/tasks goes on the list
\* of errors and the subdirectory is left alone.
CopyMakeTasks ==
    /\ \E p \in Copiers :
         /\ copiers[p].pc = "make_tasks"
         /\ IF shared_dest.tasks
            THEN /\ GotoWithError(p, "copystat")
                 /\ UNCHANGED shared_dest
            ELSE /\ shared_dest' = [shared_dest EXCEPT !.present = TRUE, !.tasks = TRUE]
                 /\ Goto(p, "copy_main")
    /\ UNCHANGED overlap
    /\ UNCHANGED <<svars, pvars, tvars, avars>>

\* shutil.copytree on the subdirectory: its file is copied.
CopyMain ==
    /\ \E p \in Copiers :
         /\ copiers[p].pc = "copy_main"
         /\ IF shared_dest.tasks
            THEN /\ shared_dest' = [shared_dest EXCEPT !.main = p]
                 /\ Goto(p, "copystat")
            ELSE /\ GotoWithError(p, "copystat")
                 /\ UNCHANGED shared_dest
    /\ UNCHANGED overlap
    /\ UNCHANGED <<svars, pvars, tvars, avars>>

\* shutil.copytree ends: copystat(src, dst), then raise Error(errors) if the
\* list is not empty; else copy_role_directory returns.
CopyFinish ==
    /\ \E p \in Copiers :
         /\ copiers[p].pc = "copystat"
         /\ IF copiers[p].errors \/ ~shared_dest.present
            THEN RaiseOSError(p, "shutil.Error")
            ELSE /\ copiers' = [copiers EXCEPT ![p].pc = "done"]
                 /\ ended' = Append(ended, p)
    /\ UNCHANGED <<shared_dest, overlap>>
    /\ UNCHANGED <<svars, pvars, tvars, avars>>

----------------------------------------------------------------------------
(* Specification of the controller synchronisation *)

SyncInit ==
    /\ env = NoEnv
    /\ sargs = NoArgs
    /\ spc = "idle"
    /\ entered = FALSE
    /\ caller = "direct"
    /\ calls = <<>>
    /\ locals = NoLocals
    /\ sres = Running
    /\ pres = Running
    /\ controller = {}

\* No project directory is looked at.
PublishIdle ==
    /\ projDir = IncrementalDir
    /\ sources = [r \in Roles |-> Absent]
    /\ fs = EmptyDisk
    /\ ncalls = 0
    /\ last = NoCall
    /\ published = {}
    /\ tool = NoTool

\* Nothing else is running.
OthersIdle == AgentIdle /\ CopiesIdle

Init == SyncInit /\ PublishIdle /\ OthersIdle

Next ==
    \/ SyncCall
    \/ SyncConfig
    \/ SyncSettings
    \/ SyncFindOrg
    \/ SyncUpsert
    \/ SyncStartUpdate
    \/ PublishAapCall
    \/ PublishAapFinish
    \/ Construct
    \/ Return

Spec == Init /\ [][Next]_vars

----------------------------------------------------------------------------
(* Specification of the project assembler *)

PublishInit ==
    /\ SyncInit
    /\ projDir \in ProjectDirs
    /\ sources \in {g \in [Roles -> UNION {SourceStates(r) : r \in Roles}] :
                      \A r \in Roles : g[r] \in SourceStates(r)}
    /\ fs = EmptyDisk
    /\ ncalls = 0
    /\ last = NoCall
    /\ published = {}
    /\ tool = NoTool
    /\ OthersIdle

PublishNext ==
    \/ PublishIncremental
    \/ PublishBatch

PublishSpec == PublishInit /\ [][PublishNext]_vars

----------------------------------------------------------------------------
(* Specification of the functions of tools.py *)

ToolsNext ==
    \/ LoadCollections
    \/ LoadInventory
    \/ CopyRole
    \/ VerifyFiles
    \/ CreateStructure

ToolsSpec == Init /\ [][ToolsNext]_vars

----------------------------------------------------------------------------
(* Specification of the PublishAgent workflow *)

AgentNext ==
    \/ PublishRole
    \/ PushToGithub
    \/ RegisterRole
    \/ CreateJobTemplate

\* The compiled graph runs a node as soon as its predecessor has returned.
AgentSpec == Init /\ [][AgentNext]_vars /\ WF_vars(AgentNext)

----------------------------------------------------------------------------
(* Specification of the unserialised copies *)

RaceNext ==
    \/ CopyEnter
    \/ CopyProbe
    \/ CopyRemoveEntries
    \/ CopyRemoveDir
    \/ CopyMakeDest
    \/ CopyTopFile
    \/ CopyMakeTasks
    \/ CopyMain
    \/ CopyFinish

RaceSpec == Init /\ [][RaceNext]_vars

----------------------------------------------------------------------------
(* Properties of the controller synchronisation *)

\* A sync_to_aap call whose arguments bound has ended.
SyncEnded == entered /\ spc = "done"

\* The three outcome shapes of an AAPSyncResult.
ShapeDisabled(r) == ~r.enabled

ShapeErrored(r) == r.enabled /\ r.error # ""

ShapeSucceeded(r) == r.enabled /\ r.error = "" /\ r.project_id # None

ShapeCount(r) ==
    (IF ShapeDisabled(r) THEN 1 ELSE 0) + (IF ShapeErrored(r) THEN 1 ELSE 0)
        + (IF ShapeSucceeded(r) THEN 1 ELSE 0)

\* The Failed outcome: an error result was returned.
Failed(r) == r.kind = "returned" /\ ShapeErrored(r.result) /\ r.result.project_id = None

OpOrder == <<"find_organization_id", "upsert_project", "start_project_update">>

IsPrefix(a, b) == Len(a) <= Len(b) /\ \A i \in 1..Len(a) : a[i] = b[i]

\* C1: sync_to_aap never raises: whatever the environment, the settings and the
\* controller client do, a call that has ended has returned an AAPSyncResult.
C1_SyncNeverRaises == SyncEnded => sres.kind = "returned"

\* C2: every AAPSyncResult returned by sync_to_aap, disabled() or from_error(msg)
\* has exactly one of the shapes disabled, errored, succeeded.
C2_ExactlyOneShape == (spc = "done" /\ sres.kind = "returned") => ShapeCount(sres.result) = 1

\* C3: with the controller base URL absent, sync_to_aap returns the disabled
\* result and invokes no controller client operation.
C3_DisabledWithoutBaseUrl ==
    (entered /\ ~env.controller_url) =>
        /\ calls = <<>>
        /\ spc \in {"config", "done"}
        /\ spc = "done" => sres = Returned(disabled)

C3_Witness ==
    /\ SyncEnded
    /\ ~env.controller_url
    /\ env.org_name = "acme"
    /\ env.auth = "token"
    /\ sres = Returned(disabled)

\* The base URL is configured, the organization name or the credentials are not.
Misconfigured(e) ==
    e.controller_url /\ (e.org_name = "" \/ e.auth \notin {"userpass", "token"})

\* C4: with the base URL configured and the organization name or the credentials
\* missing, sync_to_aap returns an error result (enabled, error non-empty), which
\* differs from the disabled result, and invokes no controller client operation.
C4_MisconfiguredIsError ==
    (entered /\ Misconfigured(env)) =>
        /\ calls = <<>>
        /\ spc \in {"config", "done"}
        /\ spc = "done" =>
             /\ sres.kind = "returned"
             /\ sres.result.enabled
             /\ sres.result.error # ""
             /\ sres.result # disabled

C4_Witness ==
    /\ SyncEnded
    /\ env.controller_url
    /\ env.org_name = "acme"
    /\ env.auth = "user_only"
    /\ ShapeErrored(sres.result)

\* C5: the controller operations of one call occur in the order
\* find_organization_id, upsert_project, start_project_update, each at most once;
\* once one of them has raised, no later one is invoked and the call ends in the
\* Failed outcome.
C5_OrderedOnceFailStop ==
    /\ IsPrefix(calls, OpOrder)
    /\ locals.failed_op # "" =>
         /\ spc = "done"
         /\ calls # <<>>
         /\ calls[Len(calls)] = locals.failed_op
         /\ Failed(sres)

C5_Witness ==
    /\ spc = "done"
    /\ locals.failed_op = "upsert_project"
    /\ calls = <<"find_organization_id", "upsert_project">>
    /\ Failed(sres)

\* C6: when upsert_project succeeded and start_project_update raised a network
\* error, the result is enabled with a non-empty error and project_id,
\* project_update_id and project_name at their defaults, while the controller
\* holds the upserted project.
C6_UpdateFailureLeavesDefaults ==
    (locals.failed_op = "start_project_update" /\ locals.failure.type = "RequestException") =>
        /\ spc = "done"
        /\ sres.kind = "returned"
        /\ sres.result.enabled
        /\ sres.result.error # ""
        /\ sres.result.project_id = None
        /\ sres.result.project_update_id = None
        /\ sres.result.project_name = ""
        /\ Matching(controller, locals.org_id, locals.project_name) # {}

C6_Witness ==
    /\ spc = "done"
    /\ locals.failed_op = "start_project_update"
    /\ locals.failure = NetworkError
    /\ sres = Returned(from_error(NetworkError.msg))
    /\ calls = OpOrder

\* One step of the controller under C7: no two projects share (org_id, name); an
\* upsert that succeeded left exactly one project under its key, holding the
\* call's SCM fields; it added a project only when the key was new.
C7_Step ==
    /\ \A p, q \in controller' : Key(p) = Key(q) => p = q
    /\ (spc = "upsert" /\ spc' = "update") =>
         LET old == Matching(controller, locals.org_id, locals.project_name)
             new == Matching(controller', locals.org_id, locals.project_name)
         IN  /\ Cardinality(new) = 1
             /\ \A p \in new :
                  /\ p.scm_url = sargs.repository_url
                  /\ p.scm_branch = sargs.branch
                  /\ p.id = locals'.project_id
             /\ IF old # {}
                THEN /\ {p.id : p \in controller'} = {p.id : p \in controller}
                     /\ {p.id : p \in new} = {p.id : p \in old}
                ELSE Cardinality(controller') = Cardinality(controller) + 1

\* C7: sequential sync_to_aap / upsert_project calls with the same organization
\* and project name leave at most one project with that (org_id, name): the first
\* call creates it, every later call updates its SCM fields in place.
C7_UpsertConverges == [][C7_Step]_vars

C7_Witness ==
    /\ spc = "update"
    /\ locals.found
    /\ Cardinality(Matching(controller, locals.org_id, locals.project_name)) = 1

\* C8: publish_aap raises RuntimeError 'not configured' when sync_to_aap returns
\* the disabled result, raises RuntimeError with the error text when the result
\* has an error, and otherwise returns the successful result unchanged, having
\* called sync_to_aap once with the repository URL, branch and project_id.
C8_PublishAapHardOutcome ==
    (caller = "publish_aap" /\ pres.kind # "none") =>
        /\ entered
        /\ sres.kind = "returned"
        /\ \/ /\ ~sres.result.enabled
              /\ pres = Raised(Exc("RuntimeError", "AAP is not configured"))
           \/ /\ sres.result.enabled
              /\ sres.result.error # ""
              /\ pres = Raised(Exc("RuntimeError", sres.result.error))
           \/ /\ ShapeSucceeded(sres.result)
              /\ pres = Returned(sres.result)

----------------------------------------------------------------------------
(* Properties of the project assembler *)

\* The last publish call returned successfully.
PublishSucceeded == last.mode # "none" /\ last.exc = ""

\* C9: in incremental mode, a publish_project call that finds ansible.cfg in
\* <project_id>/ansible-project leaves ansible.cfg, collections/requirements.yml
\* and inventory/hosts.yml as they were (kind, content, modification time) and
\* changes nothing on disk but roles/<module> and playbooks/run_<module>.yml.
C9_Step ==
    (projDir = IncrementalDir /\ Exists(fs, CfgPath) /\ ncalls' = ncalls + 1) =>
        /\ \A p \in GlobalFiles : fs'[p] = fs[p]
        /\ \A p \in Paths : fs'[p] # fs[p] => p \in RoleArtifacts(last'.roles)

C9_SkeletonWrittenOnce == [][C9_Step]_vars

\* A second module published into an initialized project: both roles and
\* playbooks are there, ansible.cfg is the first call's, the second playbook is
\* the second call's.
C9_Witness ==
    /\ PublishSucceeded
    /\ last.mode = "incremental"
    /\ last.initialized
    /\ last.roles = <<"b">>
    /\ fs[CfgPath] = File({<<"[defaults]">>}, 1)
    /\ Exists(fs, RolePath("a"))
    /\ fs[PlaybookPath("a")].mtime = 1
    /\ Exists(fs, RolePath("b"))
    /\ fs[PlaybookPath("b")].mtime = 2

\* C10: after every publish_project call that returns successfully, in either
\* mode and whatever earlier calls did to the directory, ansible.cfg,
\* collections/requirements.yml, inventory/hosts.yml and, for each role r of the
\* call, roles/<r> and playbooks/run_<r>.yml exist.
C10_SuccessIsComplete ==
    PublishSucceeded =>
        \A p \in GlobalFiles \cup RoleArtifacts(last.roles) : Exists(fs, p)

\* C11: a project is only extended, never destroyed: after any sequence of
\* publish calls (failed ones and republishes included) every roles/<r> and
\* playbooks/run_<r>.yml produced by an earlier successful publish is present.
C11_NeverDestroyed == \A p \in published : Exists(fs, p)

\* The step is a publish_project call.
PublishCalled == ncalls' = ncalls + 1

\* The source of one of the roles of the call just made is missing.
SourceMissing == \E i \in 1..Len(last'.roles) : ~Exists(sources, last'.roles[i])

\* C12: a missing source role (incremental mode) or source path (batch mode) is
\* reported as FileNotFoundError before any mutation: the call creates no
\* directory, copies no role and writes no file.
C12_Step ==
    (PublishCalled /\ SourceMissing /\ last'.exc = "FileNotFoundError") => fs' = fs

C12_MissingSourceBeforeMutation == [][C12_Step]_vars

\* C13: a batch publish_project call whose role_names and source_paths differ
\* in length raises the validation error ("must match"), writes nothing to disk
\* and processes no role.
C13_Step ==
    (PublishCalled /\ last'.mode = "batch" /\ last'.paths # Len(last'.roles)) =>
        /\ last'.exc = "ValueError"
        /\ last'.msg = "must match"
        /\ last'.log = <<>>
        /\ fs' = fs
        /\ published' = published

C13_MismatchWritesNothing == [][C13_Step]_vars

\* Two names with one path, given after a publish that left a project on disk.
C13_Witness ==
    /\ last.mode = "batch"
    /\ Len(last.roles) = 2
    /\ last.paths = 1
    /\ last.exc = "ValueError"
    /\ ncalls = 2
    /\ published # {}

\* C14: a collections file whose top-level value is not a list, or an inventory
\* file whose top-level value is not a mapping, makes publish_project (its other
\* arguments being valid) fail with TypeError before any side effect: the call
\* creates no directory and writes no file.
C14_Step ==
    (/\ PublishCalled
     /\ last'.load = "TypeError"
     /\ last'.paths = Len(last'.roles)
     /\ last'.mode = "incremental" => ~SourceMissing) =>
        /\ last'.exc = "TypeError"
        /\ last'.log = <<>>
        /\ fs' = fs
        /\ published' = published

C14_ShapeErrorBeforeSideEffect == [][C14_Step]_vars

\* A wrongly shaped override file given to an incremental call on a project
\* that an earlier call initialized.
C14_Witness ==
    /\ last.mode = "incremental"
    /\ last.load = "TypeError"
    /\ last.exc = "TypeError"
    /\ last.initialized
    /\ published # {}

----------------------------------------------------------------------------
(* Properties of the functions of tools.py *)

\* The last call was one of the two loaders.
LoaderCalled == tool.op \in {"load_collections_file", "load_inventory_file"}

\* The top-level type the loader called asks for.
ExpectedType == IF tool.op = "load_collections_file" THEN "list" ELSE "dict"

\* What parsing the file of the last call gives, once it is open.
Parsing == Parse(LOADERS(tool.args[1].suffix), tool.args[1].text)

ParseFailed ==
    /\ tool.args[1].probe = "present"
    /\ tool.args[1].open = "ok"
    /\ Parsing.exc \in {"YAMLError", "JSONDecodeError"}

ParseSucceeded ==
    /\ tool.args[1].probe = "present"
    /\ tool.args[1].open = "ok"
    /\ Parsing.exc = ""

\* C15: load_collections_file and load_inventory_file end in exactly one of:
\* None (path does not exist), ValueError (parsing fails), RuntimeError (any
\* other failure while reading), TypeError (parsed, but the top-level value is
\* not a list / a dict), the parsed data. TypeError is raised only after a
\* successful parse and a shape problem is never a ValueError or RuntimeError.
C15_LoaderOutcomes ==
    LoaderCalled =>
        /\ tool.out.exc \in {"", "ValueError", "RuntimeError", "TypeError"}
        /\ tool.args[1].probe = "missing" => tool.out = Returns("None")
        /\ ParseFailed => tool.out = Raises("ValueError")
        /\ (tool.args[1].probe = "present" /\ ~ParseFailed /\ ~ParseSucceeded) =>
               tool.out = Raises("RuntimeError")
        /\ (ParseSucceeded /\ Parsing.value # ExpectedType) => tool.out = Raises("TypeError")
        /\ (ParseSucceeded /\ Parsing.value = ExpectedType) => tool.out = Returns(ExpectedType)
        /\ tool.out.exc = "TypeError" => ParseSucceeded

\* The last call was a copy_role_directory that returned.
CopySucceeded == tool.op = "copy_role_directory" /\ tool.out.exc = ""

\* Some component of the path is one of the three excluded names.
HasExcludedName(path) ==
    \E i \in 1..Len(path) : path[i] \in {"export-output.md", ".checklist.json", ".ansible"}

\* The entries of the source tree before the call, the destination's own
\* (when it lies inside the source) apart.
SourceEntries ==
    {n \in TreeAt(tool.args[1], tool.args[2]) : ~Under(tool.args[2] \o n.path, tool.args[3])}

\* The destination tree after the call.
DestEntries == TreeAt(tool.out.disk, tool.args[3])

\* C16: after a successful copy_role_directory no entry of the destination
\* tree, at any depth, is named export-output.md, .checklist.json or .ansible,
\* and every other entry of the source tree is there at the same relative path.
C16_ExclusionAtAnyDepth ==
    CopySucceeded =>
        /\ \A n \in DestEntries : ~HasExcludedName(n.path)
        /\ \A n \in SourceEntries : ~HasExcludedName(n.path) => n \in DestEntries

\* A role with artifacts at the top and at depth copied beside the source.
C16_Witness ==
    /\ CopySucceeded
    /\ tool.args[3] = <<"t", "dst">>
    /\ Node(<<"sub", ".checklist.json">>, "file") \in SourceEntries
    /\ Node(<<"sub", ".ansible", "cache">>, "file") \in SourceEntries
    /\ Node(<<"export-output.md">>, "file") \in SourceEntries
    /\ Node(<<"sub", "keep">>, "file") \in DestEntries

\* C17: the source role directory is read-only input: whatever source and
\* destination copy_role_directory is given (the destination may equal, contain
\* or lie inside the source), and whether it returns or raises, the source
\* tree is the same after the call as before.
C17_SourceUntouched ==
    tool.op = "copy_role_directory" =>
        /\ KindAt(tool.out.disk, tool.args[2]) = KindAt(tool.args[1], tool.args[2])
        /\ TreeAt(tool.out.disk, tool.args[2]) = TreeAt(tool.args[1], tool.args[2])

\* The destination was there, as a directory or as a file, before the call.
DestinationExisted ==
    tool.op = "copy_role_directory" /\ KindAt(tool.args[1], tool.args[3]) \in {"dir", "file"}

\* C18: when the destination already exists, as a directory or as a file, a
\* successful copy_role_directory leaves it a directory holding exactly the
\* non-excluded entries of the source: nothing of the old destination that
\* is not in the source survives.
C18_OverwriteIsExact ==
    (CopySucceeded /\ DestinationExisted) =>
        /\ KindAt(tool.out.disk, tool.args[3]) = "dir"
        /\ DestEntries = {n \in SourceEntries : ~HasExcludedName(n.path)}

\* An old destination directory with content the source does not have is
\* overwritten by the role.
C18_Witness ==
    /\ CopySucceeded
    /\ tool.args[3] = <<"t", "dst">>
    /\ Node(<<"tasks", "old.yml">>, "file") \in TreeAt(tool.args[1], tool.args[3])
    /\ Node(<<"tasks", "main.yml">>, "file") \in DestEntries
    /\ Node(<<"tasks", "old.yml">>, "file") \notin DestEntries

\* The listed paths that are not on the disk, in the order listed.
NotThere ==
    LET Gone(p) == tool.args[2][p] # "present" IN SelectSeq(tool.args[1], Gone)

\* C19: verify_files_exist raises FileNotFoundError exactly when a listed
\* path does not exist; the error then names every missing path with the
\* right count; it returns normally when all exist; the disk is unchanged.
C19_VerifyReportsAllMissing ==
    tool.op = "verify_files_exist" =>
        /\ (tool.out.exc = "FileNotFoundError") <=> (NotThere # <<>>)
        /\ tool.out.exc = "FileNotFoundError" =>
              (tool.out.listed = NotThere /\ tool.out.count = Len(NotThere))
        /\ NotThere = <<>> => tool.out.exc = ""
        /\ tool.out.disk = tool.args[2]

\* C20: a batch publish_project that returns has worked in, and returns the
\* absolute resolved path of, <base>/ansible/deployments/<role_name> when it
\* was given one role and <base>/ansible/deployments/ansible-project when it
\* was given several.
C20_DeploymentDirectory ==
    (last.mode = "batch" /\ last.exc = "") =>
        /\ Len(last.roles) = 1 =>
              last.returned = <<"base", "ansible", "deployments", last.roles[1]>>
        /\ Len(last.roles) >= 2 =>
              last.returned = <<"base", "ansible", "deployments", "ansible-project">>
        /\ last.returned = projDir
        /\ \A r \in RoleArtifacts(last.roles) : Exists(fs, r)

\* The single role "a" published into its own deployment directory.
C20_Witness ==
    /\ last.mode = "batch"
    /\ last.exc = ""
    /\ last.roles = <<"a">>
    /\ last.returned = <<"base", "ansible", "deployments", "a">>
    /\ Exists(fs, RolePath("a"))

\* The place of a step in the documented sequence.
Rank(op) ==
    CASE op = "structure" -> 1 [] op = "copy" -> 2 [] op = "playbook" -> 3
      [] op = "cfg" -> 4 [] op = "req" -> 5 [] op = "inv" -> 6 [] OTHER -> 7

\* What a step that has succeeded in call number t left on the disk f.
StepOutputKept(f, step, t) ==
    CASE step.op = "structure" -> \A d \in Structure \cup {<<>>} : f[d].kind = "dir"
      [] step.op = "copy" ->
            f[RolePath(step.role)].kind = "dir" /\ f[RolePath(step.role)].content # {}
      [] step.op = "playbook" ->
            f[PlaybookPath(step.role)] = File({<<"role", step.role>>}, t)
      [] step.op = "cfg" -> f[CfgPath].kind = "file" /\ f[CfgPath].mtime = t
      [] step.op = "req" -> f[ReqPath].kind = "file" /\ f[ReqPath].mtime = t
      [] step.op = "inv" -> f[InvPath].kind = "file" /\ f[InvPath].mtime = t
      [] OTHER -> TRUE

\* The steps of a batch call that ran come in the documented order, one copy
\* and one playbook per role, with no step left out before the last one run.
InDocumentedOrder(log, roles) ==
    /\ \A i \in 1..Len(log) - 1 : Rank(log[i].op) <= Rank(log[i + 1].op)
    /\ \A i \in 1..Len(log) : \A k \in 1..Rank(log[i].op) - 1 :
          IF k \in {2, 3}
          THEN \A j \in 1..Len(roles) :
                 \E h \in 1..i - 1 : Rank(log[h].op) = k /\ log[h].role = roles[j]
          ELSE \E h \in 1..i - 1 : Rank(log[h].op) = k
    /\ \A i, j \in 1..Len(log) : (i # j) => log[i] # log[j]

C21_Step ==
    (PublishCalled /\ last'.mode = "batch" /\ last'.log # <<>>) =>
        /\ InDocumentedOrder(last'.log, last'.roles)
        /\ last'.exc = "" => last'.log[Len(last'.log)].op = "verify"
        /\ \A i \in 1..Len(last'.log) - 1 : StepOutputKept(fs', last'.log[i], ncalls')

\* C21: within one batch call the steps run in the order structure, copy of
\* every role, playbook of every role, ansible.cfg, collections manifest,
\* inventory, verify; the step that fails is the last one run, its exception
\* is the call's, and what the steps before it wrote is still on the disk.
C21_StepsInOrderNoRollback == [][C21_Step]_vars

\* A batch call of two roles whose ansible.cfg step failed: both roles and
\* both playbooks are on the disk, the collections manifest was never written.
C21_Witness ==
    /\ last.mode = "batch"
    /\ last.roles = <<"a", "b">>
    /\ last.exc = "OSError"
    /\ Len(last.log) = 6
    /\ last.log[6].op = "cfg"
    /\ Exists(fs, RolePath("a")) /\ Exists(fs, RolePath("b"))
    /\ Exists(fs, PlaybookPath("a")) /\ Exists(fs, PlaybookPath("b"))
    /\ ~Exists(fs, ReqPath)

\* The step that generates a global file.
GlobalStep(path) ==
    CASE path = CfgPath -> Step("cfg", "") [] path = ReqPath -> Step("req", "")
      [] OTHER -> Step("inv", "")

Ran(log, step) == \E i \in 1..Len(log) : log[i] = step

\* An incremental call that meets a target without ansible.cfg (an earlier
\* call that broke before writing it included) runs the whole skeleton, and
\* leaves a complete project when it returns.
C22_RetryStep ==
    (PublishCalled /\ last'.mode = "incremental" /\ last'.exc = "" /\ ~Exists(fs, CfgPath)) =>
        /\ \A i \in 1..Len(SkeletonSteps) : Ran(last'.log, SkeletonSteps[i])
        /\ \A p \in GlobalFiles \cup RoleArtifacts(last'.roles) : Exists(fs', p)

\* No incremental call that returns has skipped the generation of a global
\* file that was not there.
C22_SkipStep ==
    (PublishCalled /\ last'.mode = "incremental" /\ last'.exc = "") =>
        \A p \in GlobalFiles : ~Exists(fs, p) => Ran(last'.log, GlobalStep(p))

\* C22: a first incremental publish that fails before ansible.cfg is written
\* is retried as a first module, the retry regenerates the full skeleton and
\* leaves a complete project; and no failure leaves a state from which a later
\* successful publish skips generating a global file that does not exist.
C22_FailedFirstModuleRetried == [][C22_RetryStep /\ C22_SkipStep]_vars

\* What is on a disk, modification times apart.
Contents(f) == [p \in Paths |-> [kind |-> f[p].kind, content |-> f[p].content]]

\* One undisturbed publish call on the empty project directory.
SingleRun(mode, role_names, collections_file, inventory_file) ==
    publish_project(EmptyDisk,
        IF mode = "incremental"
        THEN IncrementalPlan(EmptyDisk, sources, role_names[1], collections_file, inventory_file)
        ELSE BatchPlan(role_names, Len(role_names), collections_file, inventory_file),
        NoFault,
        Ctx(sources, collections_file, inventory_file, 1,
            IF mode = "incremental" THEN RoleArtifacts(role_names)
            ELSE GlobalFiles \cup RoleArtifacts(role_names)))

\* The second call repeats the first one.
SameCallAgain ==
    /\ ncalls = 1
    /\ PublishCalled
    /\ last'.mode = last.mode
    /\ last'.roles = last.roles
    /\ last'.paths = last.paths
    /\ last'.load = last.load

C23_Step ==
    (SameCallAgain /\ last'.exc = "") =>
        \E cf \in FileInputs, inf \in FileInputs :
            /\ SingleRun(last'.mode, last'.roles, cf, inf).exc = ""
            /\ Contents(fs') = Contents(SingleRun(last'.mode, last'.roles, cf, inf).fs)

\* C23: a publish call run a second time with the same roles, sources and
\* override files, after a first run that succeeded or failed, leaves the
\* project directory with the contents of a single successful run.
C23_Rerunnable == [][C23_Step]_vars

\* C24: a batch call that returns has written ansible.cfg,
\* collections/requirements.yml and inventory/hosts.yml itself, also when
\* ansible.cfg was already in the deployment directory.
C24_BatchRegeneratesSkeleton ==
    (last.mode = "batch" /\ last.exc = "") =>
        /\ \A p \in GlobalFiles : fs[p].kind = "file" /\ fs[p].mtime = ncalls
        /\ \A p \in GlobalFiles : Ran(last.log, GlobalStep(p))

\* A second batch call into a directory that already had its ansible.cfg.
C24_Witness ==
    /\ last.mode = "batch"
    /\ last.exc = ""
    /\ last.initialized
    /\ ncalls = 2
    /\ fs[CfgPath].mtime = 2

\* The creation of a listed directory fails: a file is in the way, or an
\* entry that would have to be made is refused.
CreationFails(p) ==
    \E n \in 1..Len(p) :
        LET a == tool.args[2] \o SubSeq(p, 1, n)
        IN  \/ KindAt(tool.args[1], a) = "file"
            \/ KindAt(tool.args[1], a) = "absent" /\ a \in tool.args[4]

\* The base directory itself could be made (or was there).
BaseMade == tool.op = "create_directory_structure" /\ KindAt(tool.out.disk, tool.args[2]) = "dir"

FullPath(p) == tool.args[2] \o p

OSErrors == {"OSError", "PermissionError", "FileExistsError"}

\* C25: create_directory_structure tries every listed directory, also after a
\* failure; it raises OSError exactly when a creation failed, and the error
\* lists every failed and every created directory; directories that are
\* there already are no errors, and a second call changes nothing.
C25_CollectsFailures ==
    tool.op = "create_directory_structure" =>
        LET structure == tool.args[3]
            NotFails(p) == ~CreationFails(p)
            again == create_directories(tool.out.disk, tool.args[2], structure, tool.args[4])
        IN  /\ ~BaseMade => tool.out.exc \in OSErrors
            /\ BaseMade =>
                  /\ (tool.out.exc = "OSError") <=> (\E i \in 1..Len(structure) : CreationFails(structure[i]))
                  /\ tool.out.exc \in {"", "OSError"}
                  /\ tool.out.failed = SelectSeq(structure, CreationFails)
                  /\ tool.out.created = [i \in 1..Len(SelectSeq(structure, NotFails)) |->
                                            FullPath(SelectSeq(structure, NotFails)[i])]
                  /\ \A i \in 1..Len(structure) :
                        ~CreationFails(structure[i]) =>
                            KindAt(tool.out.disk, FullPath(structure[i])) = "dir"
                  /\ \A i \in 1..Len(structure) :
                        KindAt(tool.args[1], FullPath(structure[i])) = "dir" =>
                            ~CreationFails(structure[i])
            /\ again.disk = tool.out.disk
            /\ again.exc = tool.out.exc
            /\ tool.args[1] \subseteq tool.out.disk

\* The first listed directory is refused, the second one is made all the
\* same, and the error names both.
C25_Witness ==
    /\ tool.op = "create_directory_structure"
    /\ tool.args[3] = << <<"x">>, <<"y">> >>
    /\ tool.out.exc = "OSError"
    /\ tool.out.failed = << <<"x">> >>
    /\ tool.out.created = << <<"d", "y">> >>
    /\ KindAt(tool.args[1], <<"d", "y">>) = "absent"
    /\ KindAt(tool.out.disk, <<"d", "y">>) = "dir"

\* Source and destination do not overlap and nothing blocks the destination.
PlainCopy ==
    /\ tool.fault = "ok"
    /\ ~Under(tool.args[3], tool.args[2])
    /\ ~Under(tool.args[2], tool.args[3])
    /\ \A n \in 1..Len(tool.args[3]) - 1 :
          KindAt(tool.args[1], SubSeq(tool.args[3], 1, n)) # "file"

\* C26: copy_role_directory raises FileNotFoundError for a source that does not
\* exist and ValueError for one that is not a directory, both with the disk
\* as it was; a source directory without tasks/ and meta/ is warned about and
\* copied all the same.
C26_FailsFastOnBadSource ==
    tool.op = "copy_role_directory" =>
        /\ KindAt(tool.args[1], tool.args[2]) = "absent" =>
              (tool.out.exc = "FileNotFoundError" /\ tool.out.disk = tool.args[1])
        /\ KindAt(tool.args[1], tool.args[2]) = "file" =>
              (tool.out.exc = "ValueError" /\ tool.out.disk = tool.args[1])
        /\ (KindAt(tool.args[1], tool.args[2]) = "dir"
                /\ ~has_role_structure(tool.args[1], tool.args[2])) =>
              (tool.warned /\ (PlainCopy => tool.out.exc = ""))

\* C28: when upsert_project answers with a representation that has no id, or
\* id 0, sync_to_aap returns an error result and start_project_update is not
\* invoked; a succeeded result carries a non-zero project_id and the name of
\* the project that was upserted.
C28_NoIdIsError ==
    /\ locals.project \in {"missing", "zero"} =>
          /\ spc = "done"
          /\ sres.kind = "returned"
          /\ sres.result.enabled
          /\ sres.result.error # ""
          /\ \A i \in 1..Len(calls) : calls[i] # "start_project_update"
    /\ (sres.kind = "returned" /\ ShapeSucceeded(sres.result)) =>
          /\ sres.result.project_id # None
          /\ sres.result.project_id # Some(0)
          /\ sres.result.project_name = locals.project_name
          /\ \E p \in Matching(controller, locals.org_id, locals.project_name) :
                Some(p.id) = sres.result.project_id

\* The controller created the project and answered without its id.
C28_Witness ==
    /\ spc = "done"
    /\ locals.project = "missing"
    /\ calls = <<"find_organization_id", "upsert_project">>
    /\ sres = Returned(from_error("AAP API did not return a project id"))
    /\ Matching(controller, locals.org_id, locals.project_name) # {}

----------------------------------------------------------------------------
(* Properties of the unserialised copies *)

\* The destination holds exactly what caller p copies.
CompleteCopyOf(p) ==
    shared_dest = [present |-> TRUE, f |-> p, tasks |-> TRUE, main |-> p]

\* No call is between its entry and its end.
Quiet == \A p \in Copiers : ~InProgress(p)

\* Entries written by both callers.
Mixed ==
    /\ shared_dest.f # 0
    /\ shared_dest.main # 0
    /\ shared_dest.f # shared_dest.main

\* C27: copy_role_directory calls that do not overlap in time all return
\* without an exception, and when the last of them has returned the
\* destination is there and holds exactly that caller's copy: none of the
\* outcomes of the unserialised calls (a call failing on a destination that
\* reappeared, a missing destination, entries of two copies) happens.
C27_UninterruptedCallsAreClean ==
    ~overlap =>
        /\ \A i \in 1..Len(ended) : copiers[ended[i]].exc = ""
        /\ (Quiet /\ ended # <<>>) => CompleteCopyOf(ended[Len(ended)])

\* Two overlapping calls have both returned without an exception and the
\* destination holds the file of one and the main.yml of the other.
C27_Witness ==
    /\ overlap
    /\ Len(ended) = 2
    /\ \A p \in Copiers : copiers[p].exc = ""
    /\ Mixed

\* A call fails on a destination that reappeared after it was seen absent
\* or removed.
FailedOnReappearance ==
    \E p \in Copiers : copiers[p].cause = "FileExistsError"

\* A call has returned without an exception and the destination is not there.
MissingAfterSuccess ==
    /\ ~shared_dest.present
    /\ \E p \in Copiers : copiers[p].pc = "done" /\ copiers[p].exc = ""

\* When both calls have ended the destination directory is there.
PresentAtTheEnd == Len(ended) = 2 => shared_dest.present

----------------------------------------------------------------------------
(* Properties of the PublishAgent workflow *)

WorkflowNodes == {"push_to_github", "register_role", "create_job_template"}

Terminated == graph_node \in {"END", "raised"}

\* The tools invoked so far, in order.
InvokedTools == [i \in 1..Len(invoked) |-> invoked[i].tool]

C29_Step ==
    /\ graph_node' # graph_node =>
         <<graph_node, graph_node'>> \in
             {<<"idle", "push_to_github">>, <<"push_to_github", "register_role">>,
              <<"push_to_github", "raised">>, <<"register_role", "create_job_template">>,
              <<"create_job_template", "END">>}
    /\ (graph_node \in WorkflowNodes /\ publish_state.failed) =>
         /\ publish_state' = publish_state
         /\ invoked' = invoked
    /\ (graph_node \in WorkflowNodes /\ invoked' # invoked) =>
         /\ invoked' = Append(invoked, invoked'[Len(invoked')])
         /\ invoked'[Len(invoked')].tool = graph_node
    /\ IsPrefix(InvokedTools', <<"push_to_github", "register_role", "create_job_template">>)

\* C29: the nodes of the workflow run in the order push_to_github,
\* register_role, create_job_template, each run ends (at END, or with the
\* exception of the existence test of the role path), and once failed is
\* set every later node leaves the state, the failure reason included, as
\* it is and invokes no tool.
C29_OrderedLatchedTerminating ==
    /\ [][C29_Step]_vars
    /\ <>Terminated

\* The push failed; the two later nodes have run and only the push tool was
\* invoked.
C29_Witness ==
    /\ graph_node = "END"
    /\ publish_state.failed
    /\ publish_state.failure_reason[1] = "Failed to push to GitHub"
    /\ InvokedTools = <<"push_to_github">>

\* The texts with the marker, one by one.
TextsWithMarker ==
    {<<"E", "R", "R", "O", "R">>, <<"x", "E", "R", "R", "O", "R", "S">>}

\* A tool's answer that is a failure: an exception or a text with the marker.
FailureAnswer(answer) == answer.kind = "raise" \/ answer.text \in TextsWithMarker

\* C30: in every final state of publish_role, job_template_created implies
\* role_registered and not failed, publish_output is set exactly when
\* job_template_created is, failed is set exactly when failure_reason is,
\* and the run has failed exactly when the role path was missing or a tool
\* raised or answered a text containing ERROR; no exception of a tool leaves
\* the workflow.
C30_FinalState ==
    /\ graph_node = "END" =>
         /\ publish_state.job_template_created =>
              publish_state.role_registered /\ ~publish_state.failed
         /\ publish_state.publish_output # <<>> <=> publish_state.job_template_created
         /\ publish_state.failed <=> publish_state.failure_reason # <<>>
         /\ publish_state.failed <=>
              \/ publish_state.role_path = "missing"
              \/ \E i \in 1..Len(invoked) : FailureAnswer(invoked[i].answer)
    /\ graph_node = "raised" => invoked = <<>>

\* A run that succeeded although a tool answered "error" in small letters,
\* and one whose last tool raised.
C30_Witness ==
    /\ graph_node = "END"
    /\ \/ /\ publish_state.job_template_created
          /\ \E i \in 1..Len(invoked) : invoked[i].answer.text = <<"e", "r", "r", "o", "r">>
       \/ /\ Len(invoked) = 3
          /\ invoked[3].answer.kind = "raise"
          /\ publish_state.failed
          /\ publish_state.role_registered

====
